---------------------------- MODULE Spec2Model ----------------------------
(***************************************************************************)
(* A model of the APL auction tooling: the batch scripts that derive the   *)
(* valuation columns and the auction guide (process_apl_data.py,           *)
(* clean_processed_data.py, combine_apl_data.py, update_combined_data.py,  *)
(* generate_auction_guide.py, generate_auction_top_picks.py) and the       *)
(* Streamlit dashboard that keeps a team roster under a budget             *)
(* (waterfall_dashboard.py).                                               *)
(*                                                                         *)
(* Numbers.  The scripts compute with floats.  The model computes with     *)
(* exact integers in a fixed unit that is written next to each quantity    *)
(* (hundredths for a value score, tenths for a historical average, ...) or *)
(* with exact fractions [num, den], den > 0.  round() is Python's and      *)
(* numpy's round-half-to-even, applied to the exact quotient.  The float   *)
(* product of an auction score whose exact value lies halfway between two  *)
(* tenths can fall on either side, so that rounding takes either tenth.  A *)
(* missing number (NaN, None) is the empty sequence <<>> and a present     *)
(* number v is the one-element sequence <<v>>.                             *)
(***************************************************************************)
EXTENDS Integers, Sequences, FiniteSets, TLC

(***************************************************************************)
(* Bounds of the model.                                                    *)
(***************************************************************************)
\* calculate_max_bid is applied to players_needed in -MaxOverfill..TEAM_SIZE
MaxOverfill == 2
\* a refund is followed only while remaining_budget stays within MaxBudget
MaxBudget == 190
\* the full-roster guides list their players at prices 0..MaxRosterPrice
MaxRosterPrice == 16
\* the tables of the valuation engine have at most MaxRecords rows
MaxRecords == 3
\* the scripts run on the days 1..MaxDay
MaxDay == 2
\* the players of the ranked tables have the rankings 1..MaxRanking
MaxRanking == 5
\* in the simulated auctions at most MaxSold players are marked as sold
MaxSold == 2

(***************************************************************************)
(* Program constants.                                                      *)
(***************************************************************************)
TOTAL_BUDGET == 150
TEAM_SIZE == 10
MIN_NON_CIS == 2

(***************************************************************************)
(* Arithmetic helpers.                                                     *)
(***************************************************************************)
Abs(x) == IF x < 0 THEN -x ELSE x

\* Floor of n / d for d > 0 and any integer n.
FloorDiv(n, d) == IF n >= 0 THEN n \div d ELSE -(((-n) + d - 1) \div d)

\* round(n / d) for d > 0: nearest integer, a tie going to the even one.
RoundHalfEven(n, d) ==
    LET q == FloorDiv(n, d)
        r == n - q * d
    IN  IF 2 * r < d THEN q
        ELSE IF 2 * r > d THEN q + 1
        ELSE IF q % 2 = 0 THEN q ELSE q + 1

RECURSIVE GCD(_, _)
GCD(a, b) == IF b = 0 THEN a ELSE GCD(b, a % b)

\* Fractions [num, den] with den > 0, in lowest terms.
Frac(n, d) ==
    LET g == GCD(Abs(n), d)
    IN  [num |-> n \div g, den |-> d \div g]
FracLeq(a, b) == a.num * b.den <= b.num * a.den
FracLt(a, b) == a.num * b.den < b.num * a.den
FracEq(a, b) == a.num * b.den = b.num * a.den

VARIABLES
    \* one call of calculate_max_bid: its arguments and its return value
    bid_call, bid_result,
    \* the dashboard: the loaded auction guide (load_data) and st.session_state
    auction_guide, team_players, remaining_budget, sold_players,
    bid_history, current_bid_player,
    \* the search and filter settings of st.session_state
    filters,
    \* the batch scripts: the rows of the files they read and write, the
    \* script that runs next, and the day datetime.now() returns
    apl67_sheets, apl8_players_data, processed_apl_data, apl_data_cleaned,
    apl_historical_data, apl_master_data, apl8_auction_guide,
    apl8_auction_top_picks, pipeline_pc, clock

bidVars == <<bid_call, bid_result>>
fileVars == <<apl67_sheets, apl8_players_data, processed_apl_data,
              apl_data_cleaned, apl_historical_data, apl_master_data,
              apl8_auction_guide, apl8_auction_top_picks>>
pipeVars == <<fileVars, pipeline_pc, clock>>
sessionVars == <<team_players, remaining_budget, sold_players,
                 bid_history, current_bid_player, filters>>
dashVars == <<auction_guide, team_players, remaining_budget, sold_players,
              bid_history, current_bid_player, filters>>
vars == <<bid_call, bid_result, auction_guide, team_players, remaining_budget,
          sold_players, bid_history, current_bid_player, filters, apl67_sheets,
          apl8_players_data, processed_apl_data, apl_data_cleaned,
          apl_historical_data, apl_master_data, apl8_auction_guide,
          apl8_auction_top_picks, pipeline_pc, clock>>

\* Each specification runs one part of the program; the variables of the
\* other parts stay at these values.
BidIdle == bid_call = <<>> /\ bid_result = <<>>

PipeIdle ==
    /\ apl67_sheets = <<>>
    /\ apl8_players_data = <<>>
    /\ processed_apl_data = <<>>
    /\ apl_data_cleaned = <<>>
    /\ apl_historical_data = <<>>
    /\ apl_master_data = <<>>
    /\ apl8_auction_guide = <<>>
    /\ apl8_auction_top_picks = <<>>
    /\ pipeline_pc = "idle"
    /\ clock = 1

DashIdle ==
    /\ auction_guide = <<>>
    /\ team_players = <<>>
    /\ remaining_budget = 0
    /\ sold_players = <<>>
    /\ bid_history = <<>>
    /\ current_bid_player = <<>>
    /\ filters = <<>>

(***************************************************************************)
(* calculate_max_bid (waterfall_dashboard.py 183-196).                     *)
(* budget (remaining_budget) is in whole units, player_value in           *)
(* hundredths; the result is an exact fraction of a unit.                  *)
(***************************************************************************)
\* avg_per_player = remaining_budget / players_needed if players_needed > 0 else 0
avg_per_player(budget, players_needed) ==
    IF players_needed > 0 THEN Frac(budget, players_needed)
    ELSE Frac(0, 1)

\* 1.5 + (player_value - 1) * 0.5 and 1 + (player_value - 1) * 0.3, in
\* thousandths
value_adjustment(player_value, is_high_priority) ==
    IF is_high_priority THEN 1500 + (player_value - 100) * 5
    ELSE 1000 + (player_value - 100) * 3

\* min(max_bid, remaining_budget) of Python: the first argument unless the
\* second is strictly smaller
PyMin(a, b) == IF FracLt(b, a) THEN b ELSE a

\* calculate_max_bid without its last line's cap
calculate_max_bid_uncapped(budget, players_needed, player_value, is_high_priority) ==
    LET avg == avg_per_player(budget, players_needed)
        adj == value_adjustment(player_value, is_high_priority)
    IN  Frac(avg.num * adj, avg.den * 1000)

calculate_max_bid(budget, players_needed, player_value, is_high_priority) ==
    LET avg == avg_per_player(budget, players_needed)
        adj == value_adjustment(player_value, is_high_priority)
        max_bid == Frac(avg.num * adj, avg.den * 1000)
    IN  PyMin(max_bid, Frac(budget, 1))

\* The arguments the dashboard and its documentation apply the function to.
BudgetArgs == {0, 1, 50, 149, TOTAL_BUDGET}
PlayersNeededArgs == (0 - MaxOverfill)..TEAM_SIZE
\* value scores in hundredths: -3.00 ... 4.00
ValueScoreArgs == {-300, -250, -100, 0, 50, 100, 150, 200, 400}

BidInit ==
    /\ bid_call \in [remaining_budget : BudgetArgs,
                     players_needed : PlayersNeededArgs,
                     player_value : ValueScoreArgs,
                     is_high_priority : BOOLEAN]
    /\ bid_result = <<>>
    /\ DashIdle
    /\ PipeIdle

CalculateMaxBid ==
    /\ bid_result = <<>>
    /\ bid_result' = <<calculate_max_bid(bid_call.remaining_budget,
                                         bid_call.players_needed,
                                         bid_call.player_value,
                                         bid_call.is_high_priority)>>
    /\ UNCHANGED <<bid_call, dashVars, pipeVars>>

BidNext == CalculateMaxBid

(***************************************************************************)
(* The dashboard session (waterfall_dashboard.py).  One action is one      *)
(* click: Streamlit runs the script once per click, with exactly one       *)
(* button returning True, and the handler of that button is the step.      *)
(* Amounts are whole units (the code's floats restricted to whole values). *)
(*                                                                         *)
(* A guide row is [Player, Tier, Price, Gender, Primary_Position,          *)
(* Value_Score (hundredths), top_pick (the row is also in top_picks)].     *)
(* A roster entry keeps Player, Price, Bid and Final_Price; Final_Price    *)
(* is <<>> when the handler wrote no such key.  The other keys a handler   *)
(* copies from the guide row are never read back by a handler.             *)
(***************************************************************************)
Min2(a, b) == IF a <= b THEN a ELSE b

RemoveAt(seq, i) == SubSeq(seq, 1, i - 1) \o SubSeq(seq, i + 1, Len(seq))

RECURSIVE SumPrice(_)
SumPrice(rows) ==
    IF rows = <<>> THEN 0 ELSE rows[1].Price + SumPrice(Tail(rows))

Players == {auction_guide[i].Player : i \in DOMAIN auction_guide}
GuideRow(p) == auction_guide[CHOOSE i \in DOMAIN auction_guide : auction_guide[i].Player = p]
TopPicks == {auction_guide[i].Player : i \in {j \in DOMAIN auction_guide : auction_guide[j].top_pick}}

\* player_bought and player_sold as every tab computes them
player_bought(p) == \E i \in DOMAIN team_players : team_players[i].Player = p
player_sold(p) == \E i \in DOMAIN sold_players : sold_players[i] = p

\* list.remove(x): the first occurrence goes
ListRemove(seq, x) ==
    RemoveAt(seq, CHOOSE i \in DOMAIN seq :
                      seq[i] = x /\ \A j \in 1..(i - 1) : seq[j] # x)

\* the search and filter settings at the start of a session, 231-246
initial_filters ==
    [search_query |-> "", position_filter |-> "All", show_top_picks |-> FALSE,
     price_range_min |-> 0, price_range_max |-> 100]

\* init_session_state (224-259)
init_session_state ==
    /\ team_players = <<>>
    /\ remaining_budget = TOTAL_BUDGET
    /\ sold_players = <<>>
    /\ bid_history = [p \in Players |-> <<>>]
    /\ current_bid_player = <<>>
    /\ filters = initial_filters

\* The values a user enters in the bid widgets: the slider's bid and the
\* number_input's final price, both between the widget's limits.
SliderBids == {1}
FinalPrices == {0, 50, 100}

\* max_possible_bid = min(cap, current_budget or cap)
max_possible_bid(cap) ==
    Min2(cap, IF remaining_budget # 0 THEN remaining_budget ELSE cap)

bid_amounts(cap) == {b \in SliderBids : b <= max_possible_bid(cap)}
final_prices(cap) == {f \in FinalPrices : f <= max_possible_bid(cap)}

\* the dict an Add to Team of the search and team-builder tabs appends
entry_listed(row) ==
    [Player |-> row.Player, Price |-> row.Price, Bid |-> <<>>,
     Final_Price |-> <<row.Price>>]
\* the dict the top-targets Add to Team and Add Team to My Roster append
entry_plain(row) ==
    [Player |-> row.Player, Price |-> row.Price, Bid |-> <<>>,
     Final_Price |-> <<>>]
\* the dict a confirmed bid appends
entry_bid(row, bid, final) ==
    [Player |-> row.Player, Price |-> row.Price, Bid |-> <<bid>>,
     Final_Price |-> <<final>>]

(***************************************************************************)
(* Player Search tab (show_player_search_tab).                             *)
(***************************************************************************)
\* "Add to Team" without its comparison of the price with the budget
SearchAddToTeam_unchecked(p) ==
    /\ ~player_sold(p) /\ ~player_bought(p)
    /\ team_players' = Append(team_players, entry_listed(GuideRow(p)))
    /\ remaining_budget' = remaining_budget - GuideRow(p).Price
    /\ UNCHANGED <<bidVars, pipeVars, auction_guide, filters, sold_players, bid_history, current_bid_player>>

\* "Add to Team", 1310-1338
SearchAddToTeam(p) ==
    /\ ~player_sold(p) /\ ~player_bought(p)
    /\ IF GuideRow(p).Price <= remaining_budget
       THEN /\ team_players' = Append(team_players, entry_listed(GuideRow(p)))
            /\ remaining_budget' = remaining_budget - GuideRow(p).Price
       ELSE UNCHANGED <<team_players, remaining_budget>>
    /\ UNCHANGED <<bidVars, pipeVars, auction_guide, filters, sold_players, bid_history, current_bid_player>>

\* "Remove", 1339-1352.  team_player['Final_Price'] raises KeyError on an
\* entry without that key; the tab's except clause (1476) reports it and the
\* session is as it was.
SearchRemove(p) ==
    /\ player_bought(p)
    /\ LET i == CHOOSE k \in DOMAIN team_players :
                    /\ team_players[k].Player = p
                    /\ \A j \in 1..(k - 1) : team_players[j].Player # p
           e == team_players[i]
       IN  IF e.Final_Price = <<>>
           THEN UNCHANGED <<team_players, remaining_budget>>
           ELSE /\ remaining_budget' = remaining_budget +
                       (IF e.Final_Price[1] # 0 THEN e.Final_Price[1] ELSE e.Price)
                /\ team_players' = RemoveAt(team_players, i)
    /\ remaining_budget' <= MaxBudget
    /\ UNCHANGED <<bidVars, pipeVars, auction_guide, filters, sold_players, bid_history, current_bid_player>>

\* "Confirm Bid", 1356-1441
SearchConfirmBid(p, bid, final) ==
    /\ ~player_sold(p) /\ ~player_bought(p)
    /\ bid \in bid_amounts(50) /\ final \in final_prices(50)
    /\ IF final <= remaining_budget
       THEN /\ team_players' = Append(team_players, entry_bid(GuideRow(p), bid, final))
            /\ remaining_budget' = remaining_budget - final
            /\ bid_history' = [bid_history EXCEPT ![p] = <<[bid |-> bid, final_price |-> final]>>]
       ELSE UNCHANGED <<team_players, remaining_budget, bid_history>>
    /\ UNCHANGED <<bidVars, pipeVars, auction_guide, filters, sold_players, current_bid_player>>

\* "Mark Available", 1443-1449
SearchMarkAvailable(p) ==
    /\ ~(~player_sold(p) /\ ~player_bought(p)) /\ player_sold(p)
    /\ sold_players' = ListRemove(sold_players, p)
    /\ UNCHANGED <<bidVars, pipeVars, auction_guide, filters, team_players, remaining_budget, bid_history,
                   current_bid_player>>

\* "Mark as Sold", 1459-1466
SearchMarkSold(p) ==
    /\ ~player_sold(p) /\ ~player_bought(p)
    /\ sold_players' = Append(sold_players, p)
    /\ UNCHANGED <<bidVars, pipeVars, auction_guide, filters, team_players, remaining_budget, bid_history,
                   current_bid_player>>

(***************************************************************************)
(* Top Targets tab (show_top_targets_tab): the rows of top_picks.          *)
(***************************************************************************)
\* "Add to Team", 727-747
TopAddToTeam(p) ==
    /\ p \in TopPicks
    /\ ~player_bought(p) /\ ~player_sold(p)
    /\ IF GuideRow(p).Price <= remaining_budget
       THEN /\ team_players' = Append(team_players, entry_plain(GuideRow(p)))
            /\ remaining_budget' = remaining_budget - GuideRow(p).Price
       ELSE UNCHANGED <<team_players, remaining_budget>>
    /\ UNCHANGED <<bidVars, pipeVars, auction_guide, filters, sold_players, bid_history, current_bid_player>>

\* "Mark as Sold", 753-760
TopMarkSold(p) ==
    /\ p \in TopPicks
    /\ ~player_bought(p) /\ ~player_sold(p)
    /\ sold_players' = Append(sold_players, p)
    /\ UNCHANGED <<bidVars, pipeVars, auction_guide, filters, team_players, remaining_budget, bid_history,
                   current_bid_player>>

\* "Mark as Available", 761-766
TopMarkAvailable(p) ==
    /\ p \in TopPicks
    /\ ~player_bought(p) /\ player_sold(p)
    /\ sold_players' = ListRemove(sold_players, p)
    /\ UNCHANGED <<bidVars, pipeVars, auction_guide, filters, team_players, remaining_budget, bid_history,
                   current_bid_player>>

\* "Bid", 768-773
TopBid(p) ==
    /\ p \in TopPicks
    /\ ~player_bought(p) /\ ~player_sold(p)
    /\ current_bid_player' = <<p>>
    /\ UNCHANGED <<bidVars, pipeVars, auction_guide, filters, team_players, remaining_budget, sold_players,
                   bid_history>>

\* the bid form's confirmation with the bid written to bid_history before
\* the final price is compared with the budget
TopConfirmBid_recording(p, bid, final) ==
    /\ p \in TopPicks
    /\ current_bid_player = <<p>>
    /\ bid \in bid_amounts(100) /\ final \in final_prices(100)
    /\ bid_history' = [bid_history EXCEPT ![p] = <<[bid |-> bid, final_price |-> final]>>]
    /\ IF final <= remaining_budget
       THEN /\ team_players' = Append(team_players, entry_bid(GuideRow(p), bid, final))
            /\ remaining_budget' = remaining_budget - final
            /\ current_bid_player' = <<>>
       ELSE UNCHANGED <<team_players, remaining_budget, current_bid_player>>
    /\ UNCHANGED <<bidVars, pipeVars, auction_guide, filters, sold_players>>

\* "Confirm and Add to Team" of the bid form, 780-862.  The form is drawn for
\* the row whose name is current_bid_player, whatever player_bought and
\* player_sold are.
TopConfirmBid(p, bid, final) ==
    /\ p \in TopPicks
    /\ current_bid_player = <<p>>
    /\ bid \in bid_amounts(100) /\ final \in final_prices(100)
    /\ IF final <= remaining_budget
       THEN /\ team_players' = Append(team_players, entry_bid(GuideRow(p), bid, final))
            /\ remaining_budget' = remaining_budget - final
            /\ bid_history' = [bid_history EXCEPT ![p] = <<[bid |-> bid, final_price |-> final]>>]
            /\ current_bid_player' = <<>>
       ELSE UNCHANGED <<team_players, remaining_budget, bid_history, current_bid_player>>
    /\ UNCHANGED <<bidVars, pipeVars, auction_guide, filters, sold_players>>

\* "Cancel" of the bid form, 864-869
TopCancelBid(p) ==
    /\ p \in TopPicks
    /\ current_bid_player = <<p>>
    /\ current_bid_player' = <<>>
    /\ UNCHANGED <<bidVars, pipeVars, auction_guide, filters, team_players, remaining_budget, sold_players,
                   bid_history>>

(***************************************************************************)
(* Team Builder tab (show_team_builder_tab).  Its result cards are the     *)
(* guide rows that are neither sold nor on the roster (1622-1624).         *)
(***************************************************************************)
builder_listed(p) == ~player_sold(p) /\ ~player_bought(p)

\* "Reset Team" clearing the bid form and the search with the team
ResetTeam_clearing ==
    /\ team_players' = <<>>
    /\ remaining_budget' = TOTAL_BUDGET
    /\ current_bid_player' = <<>>
    /\ filters' = [filters EXCEPT !.search_query = ""]
    /\ UNCHANGED <<bidVars, pipeVars, auction_guide, sold_players, bid_history>>

\* "Reset Team", 1551-1559
ResetTeam ==
    /\ team_players' = <<>>
    /\ remaining_budget' = TOTAL_BUDGET
    /\ UNCHANGED <<bidVars, pipeVars, auction_guide, filters, sold_players, bid_history, current_bid_player>>

\* "Add to Team", 1700-1727
BuilderAddToTeam(p) ==
    /\ builder_listed(p)
    /\ IF GuideRow(p).Price <= remaining_budget
       THEN /\ team_players' = Append(team_players, entry_listed(GuideRow(p)))
            /\ remaining_budget' = remaining_budget - GuideRow(p).Price
       ELSE UNCHANGED <<team_players, remaining_budget>>
    /\ UNCHANGED <<bidVars, pipeVars, auction_guide, filters, sold_players, bid_history, current_bid_player>>

\* "Bid", 1729-1734
BuilderBid(p) ==
    /\ builder_listed(p)
    /\ current_bid_player' = <<p>>
    /\ UNCHANGED <<bidVars, pipeVars, auction_guide, filters, team_players, remaining_budget, sold_players,
                   bid_history>>

\* "Mark as Sold", 1736-1742
BuilderMarkSold(p) ==
    /\ builder_listed(p)
    /\ sold_players' = Append(sold_players, p)
    /\ UNCHANGED <<bidVars, pipeVars, auction_guide, filters, team_players, remaining_budget, bid_history,
                   current_bid_player>>

\* show_bid_modal's "Confirm and Add to Team" (2291-2338) and the handling
\* of its result, 1744-1800
BuilderConfirmBid(p, bid, final) ==
    /\ builder_listed(p)
    /\ current_bid_player = <<p>>
    /\ bid \in bid_amounts(100) /\ final \in final_prices(100)
    /\ IF final <= remaining_budget
       THEN /\ team_players' = Append(team_players, entry_bid(GuideRow(p), bid, final))
            /\ remaining_budget' = remaining_budget - final
            /\ bid_history' = [bid_history EXCEPT ![p] = <<[bid |-> bid, final_price |-> final]>>]
            /\ current_bid_player' = <<>>
       ELSE UNCHANGED <<team_players, remaining_budget, bid_history, current_bid_player>>
    /\ UNCHANGED <<bidVars, pipeVars, auction_guide, filters, sold_players>>

\* show_bid_modal's "Cancel", 1801-1804
BuilderCancelBid(p) ==
    /\ builder_listed(p)
    /\ current_bid_player = <<p>>
    /\ current_bid_player' = <<>>
    /\ UNCHANGED <<bidVars, pipeVars, auction_guide, filters, team_players, remaining_budget, sold_players,
                   bid_history>>

\* The settings a user enters in the search box, the position selectbox,
\* the top-picks checkbox and the price sliders (890-969); the minimum is
\* brought down to the maximum (963-964).
FilterSettings ==
    {[search_query |-> q, position_filter |-> pos, show_top_picks |-> top,
      price_range_min |-> Min2(lo, hi), price_range_max |-> hi] :
        q \in {"", "P1"}, pos \in {"All", "Forward"}, top \in BOOLEAN,
        lo \in {0, 60}, hi \in {40, 100}}

\* a change of the search and filter widgets, 890-969
SetFilters(f) ==
    /\ f # filters
    /\ filters' = f
    /\ UNCHANGED <<bidVars, pipeVars, auction_guide, team_players, remaining_budget,
                   sold_players, bid_history, current_bid_player>>

\* "View All Affordable Players", 1886-1999: offered while the team has
\* players and free slots and a player that is neither bought nor sold fits
\* the budget
ViewAllAffordable ==
    /\ Len(team_players) > 0
    /\ TEAM_SIZE - Len(team_players) > 0
    /\ \E p \in Players :
          /\ GuideRow(p).Price <= remaining_budget
          /\ ~player_bought(p) /\ ~player_sold(p)
    /\ filters' = [filters EXCEPT !.price_range_min = 0,
                                  !.price_range_max = remaining_budget,
                                  !.search_query = "",
                                  !.show_top_picks = FALSE]
    /\ UNCHANGED <<bidVars, pipeVars, auction_guide, team_players, remaining_budget,
                   sold_players, bid_history, current_bid_player>>

(***************************************************************************)
(* Auction Simulation tab (show_simulation_tab).                           *)
(***************************************************************************)
\* DataFrame.head(n)
head_n(rows, n) == SubSeq(rows, 1, Min2(n, Len(rows)))

\* sort_values(['Value_Score'], ascending=[False]); equal scores keep their
\* order
RECURSIVE sort_desc(_)
sort_desc(rows) ==
    IF rows = <<>> THEN <<>>
    ELSE LET i == CHOOSE k \in DOMAIN rows :
                      /\ \A j \in DOMAIN rows : rows[j].Value_Score <= rows[k].Value_Score
                      /\ \A j \in 1..(k - 1) : rows[j].Value_Score < rows[k].Value_Score
         IN  <<rows[i]>> \o sort_desc(RemoveAt(rows, i))

\* sort_values(['Value_Score'], ascending=[True])
RECURSIVE sort_asc(_)
sort_asc(rows) ==
    IF rows = <<>> THEN <<>>
    ELSE LET i == CHOOSE k \in DOMAIN rows :
                      /\ \A j \in DOMAIN rows : rows[j].Value_Score >= rows[k].Value_Score
                      /\ \A j \in 1..(k - 1) : rows[j].Value_Score > rows[k].Value_Score
         IN  <<rows[i]>> \o sort_asc(RemoveAt(rows, i))

names_of(rows) == {rows[i].Player : i \in DOMAIN rows}
women_in(rows) == Cardinality({i \in DOMAIN rows : rows[i].Gender = "Women"})

\* the player counts of the tier sliders, 309-327 (the counts of tiers 1-3
\* sum to 8 at most, so the adjusting loop of 316-324 never runs)
tier_counts(t1_budget, t2_budget, t3_budget) ==
    LET t1_count == Min2(2, t1_budget \div 40)
        t2_count == Min2(3, t2_budget \div 20)
        t3_count == Min2(3, t3_budget \div 15)
        t4_count == TEAM_SIZE - (t1_count + t2_count + t3_count)
    IN  <<t1_count, t2_count, t3_count, IF t4_count < 0 THEN 0 ELSE t4_count>>

\* the best players of one tier, 437-459
tier_players(tier, budget, count) ==
    head_n(sort_desc(SelectSeq(auction_guide,
               LAMBDA r : r.Tier = tier /\ r.Price <= budget /\ ~player_sold(r.Player))),
           count)

\* the women outside the team, sold ones among them
non_cis_players_with_sold(team) ==
    sort_desc(SelectSeq(auction_guide,
        LAMBDA r : r.Gender = "Women" /\ r.Player \notin names_of(team)))

\* the women the adjustment may bring in, 469-473 and 519-523
non_cis_players(team) ==
    sort_desc(SelectSeq(auction_guide,
        LAMBDA r : r.Gender = "Women" /\ r.Player \notin names_of(team)
                   /\ ~player_sold(r.Player)))

\* the loop of 476-483, from iteration i on
RECURSIVE adjust_tier_team(_, _, _, _)
adjust_tier_team(team, women, i, n) ==
    IF i >= n THEN team
    ELSE IF i < Len(women)
         THEN adjust_tier_team(
                  (IF team = <<>> THEN <<>> ELSE Tail(sort_asc(team))) \o <<women[i + 1]>>,
                  women, i + 1, n)
         ELSE adjust_tier_team(team, women, i + 1, n)

\* the tier-based simulated team, 435-485
simulate_by_tier(t1_budget, t2_budget, t3_budget, t4_budget) ==
    LET c == tier_counts(t1_budget, t2_budget, t3_budget)
        combined_team == tier_players(1, t1_budget, c[1]) \o tier_players(2, t2_budget, c[2])
                         \o tier_players(3, t3_budget, c[3]) \o tier_players(4, t4_budget, c[4])
        non_cis_count == women_in(combined_team)
    IN  IF non_cis_count < MIN_NON_CIS
        THEN adjust_tier_team(combined_team, non_cis_players(combined_team), 0,
                              MIN_NON_CIS - non_cis_count)
        ELSE combined_team

\* position_categories, 354-359
position_categories ==
    [Forward |-> {"Forward", "Striker", "Winger", "No. 9", "Forward/Number 9/CAN",
                  "Forward/Number 10"},
     Midfielder |-> {"Midfielder", "Box-to-Box Midfielder", "Central Midfielder", "DM"},
     Defender |-> {"Defender", "Center Back (Sweeper)", "Ball Playing Center Back",
                   "Full Back"},
     Goalkeeper |-> {"Goalkeeper"}]

\* get_position_players, 489-501
get_position_players(category, budget, count) ==
    head_n(sort_desc(SelectSeq(auction_guide,
               LAMBDA r : /\ r.Primary_Position \in position_categories[category]
                          /\ r.Price <= budget
                          /\ ~player_sold(r.Player))),
           count)

\* the loop of 526-537, from iteration i on
RECURSIVE adjust_position_team(_, _, _, _)
adjust_position_team(team, women, i, n) ==
    IF i >= n THEN team
    ELSE IF i < Len(women)
         THEN LET non_gk_team == sort_asc(SelectSeq(team,
                                     LAMBDA r : r.Primary_Position # "Goalkeeper"))
                  kept == IF Len(non_gk_team) > 0
                          THEN SelectSeq(team, LAMBDA r : r.Player # non_gk_team[1].Player)
                          ELSE team
              IN  adjust_position_team(kept \o <<women[i + 1]>>, women, i + 1, n)
         ELSE adjust_position_team(team, women, i + 1, n)

\* the position-based simulated team, 487-537 (counts 3, 3, 3, 1: 392-395)
simulate_by_position(fwd_budget, mid_budget, def_budget, gk_budget) ==
    LET simulated_team == get_position_players("Forward", fwd_budget, 3)
                          \o get_position_players("Midfielder", mid_budget, 3)
                          \o get_position_players("Defender", def_budget, 3)
                          \o get_position_players("Goalkeeper", gk_budget, 1)
        non_cis_count == women_in(simulated_team)
    IN  IF non_cis_count < MIN_NON_CIS
        THEN adjust_position_team(simulated_team, non_cis_players(simulated_team), 0,
                                  MIN_NON_CIS - non_cis_count)
        ELSE simulated_team

\* The slider settings tried: each slider at 0 and at its maximum (280-283,
\* 362-365).
TierSliders == {0, 100} \X {0, 80} \X {0, 60} \X {0, 40}
PositionSliders == {0, 80} \X {0, 60} \X {0, 40} \X {0, 20}

simulated_teams ==
    {simulate_by_tier(b[1], b[2], b[3], b[4]) : b \in TierSliders}
    \cup {simulate_by_position(b[1], b[2], b[3], b[4]) : b \in PositionSliders}

RECURSIVE roster_entries(_, _)
roster_entries(rows, current_players) ==
    IF rows = <<>> THEN <<>>
    ELSE (IF rows[1].Player \notin current_players
          THEN <<entry_plain(rows[1])>> ELSE <<>>)
         \o roster_entries(Tail(rows), current_players)

\* "Add Team to My Roster", 540-593
AddTeamToRoster(simulated_team) ==
    /\ Len(simulated_team) > 0
    /\ LET total_cost == SumPrice(simulated_team)
           current_players == {team_players[i].Player : i \in DOMAIN team_players}
           added == roster_entries(simulated_team, current_players)
       IN  IF total_cost <= remaining_budget /\ Len(added) > 0
           THEN /\ team_players' = team_players \o added
                /\ remaining_budget' = remaining_budget - total_cost
           ELSE UNCHANGED <<team_players, remaining_budget>>
    /\ UNCHANGED <<bidVars, pipeVars, auction_guide, filters, sold_players, bid_history, current_bid_player>>

(***************************************************************************)
(* The session over a small guide.                                         *)
(***************************************************************************)
guide_row(name, tier, price, gender, position, value, top) ==
    [Player |-> name, Tier |-> tier, Price |-> price, Gender |-> gender,
     Primary_Position |-> position, Value_Score |-> value, top_pick |-> top]

\* Two players: both fit the budget together (40 + 60), a bid at 100 leaves
\* too little for the second (60 > 50), and bids of 100 and 50 use it up.
SmallGuide ==
    << guide_row("P1", 1, 40, "Men", "Forward", 120, TRUE),
       guide_row("P2", 2, 60, "Women", "Midfielder", 180, TRUE) >>

\* A free player and one that costs the whole budget.
EdgeGuide ==
    << guide_row("P1", 4, 0, "Women", "Defender", 90, FALSE),
       guide_row("P2", 1, TOTAL_BUDGET, "Men", "Forward", 150, TRUE) >>

Guides == {SmallGuide, EdgeGuide}

Init ==
    /\ auction_guide \in Guides
    /\ init_session_state
    /\ BidIdle
    /\ PipeIdle

Next ==
    \/ \E p \in Players : SearchAddToTeam(p)
    \/ \E p \in Players : SearchRemove(p)
    \/ \E p \in Players : \E bid \in SliderBids : \E final \in FinalPrices :
           SearchConfirmBid(p, bid, final)
    \/ \E p \in Players : SearchMarkAvailable(p)
    \/ \E p \in Players : SearchMarkSold(p)
    \/ \E p \in Players : TopAddToTeam(p)
    \/ \E p \in Players : TopMarkSold(p)
    \/ \E p \in Players : TopMarkAvailable(p)
    \/ \E p \in Players : TopBid(p)
    \/ \E p \in Players : \E bid \in SliderBids : \E final \in FinalPrices :
           TopConfirmBid(p, bid, final)
    \/ \E p \in Players : TopCancelBid(p)
    \/ ResetTeam
    \/ \E p \in Players : BuilderAddToTeam(p)
    \/ \E p \in Players : BuilderBid(p)
    \/ \E p \in Players : BuilderMarkSold(p)
    \/ \E p \in Players : \E bid \in SliderBids : \E final \in FinalPrices :
           BuilderConfirmBid(p, bid, final)
    \/ \E p \in Players : BuilderCancelBid(p)
    \/ \E team \in simulated_teams : AddTeamToRoster(team)

Spec == Init /\ [][Next]_vars

SpecBid == BidInit /\ [][BidNext]_vars

(***************************************************************************)
(* Filling a roster: a guide of TEAM_SIZE + 1 players, all at one price,   *)
(* and a user who buys from the top of the Team Builder's list, takes the  *)
(* last purchase back in the search tab, or resets.                        *)
(***************************************************************************)
RosterNames == <<"P1", "P2", "P3", "P4", "P5", "P6", "P7", "P8", "P9", "P10",
                 "P11", "P12", "P13", "P14", "P15", "P16">>

RosterGuide(price) ==
    [i \in 1..(TEAM_SIZE + 1) |->
        guide_row(RosterNames[i], 4, price, "Men", "Defender", 100, FALSE)]

\* the first card of the Team Builder's list
first_listed(p) ==
    \E i \in DOMAIN auction_guide :
        /\ auction_guide[i].Player = p
        /\ builder_listed(p)
        /\ \A j \in 1..(i - 1) : ~builder_listed(auction_guide[j].Player)

last_bought(p) ==
    team_players # <<>> /\ team_players[Len(team_players)].Player = p

RosterInit ==
    /\ auction_guide \in {RosterGuide(price) : price \in 0..MaxRosterPrice}
    /\ init_session_state
    /\ BidIdle
    /\ PipeIdle

RosterNext ==
    \/ \E p \in Players : first_listed(p) /\ BuilderAddToTeam(p)
    \/ \E p \in Players : last_bought(p) /\ SearchRemove(p)
    \/ ResetTeam

SpecRoster == RosterInit /\ [][RosterNext]_vars

(***************************************************************************)
(* Simulating teams: guides of four players at price 20, of either gender  *)
(* and with value scores 1.00 to 4.00, in tier 1 or tier 4 and in the      *)
(* field or in goal, and a user who marks players as sold or available,    *)
(* adds a simulated team to the roster, or resets.                         *)
(***************************************************************************)
\* tier and Primary_Position of the first two and of the last two players
FrontPlaces == {<<1, "Forward">>, <<4, "Defender">>}
BackPlaces == {<<4, "Defender">>, <<4, "Goalkeeper">>}
Genders == {"Men", "Women"}

SimulationGuide(place, gender) ==
    [i \in 1..4 |->
        guide_row(RosterNames[i], place[i][1], 20, gender[i],
                  place[i][2], 100 * i, FALSE)]

SimulationGuides ==
    {SimulationGuide(place, gender) :
        place \in FrontPlaces \X FrontPlaces \X BackPlaces \X BackPlaces,
        gender \in Genders \X Genders \X Genders \X Genders}

SimulationInit ==
    /\ auction_guide \in SimulationGuides
    /\ init_session_state
    /\ BidIdle
    /\ PipeIdle

SimulationNext ==
    \/ \E p \in Players : Len(sold_players) < MaxSold /\ SearchMarkSold(p)
    \/ \E p \in Players : SearchMarkAvailable(p)
    \/ \E team \in simulated_teams : AddTeamToRoster(team)
    \/ ResetTeam

SpecSimulation == SimulationInit /\ [][SimulationNext]_vars

(***************************************************************************)
(* Buying and giving back single players: the session without the Auction  *)
(* Simulation tab.                                                         *)
(***************************************************************************)
SingleInit ==
    /\ auction_guide \in Guides
    /\ init_session_state
    /\ BidIdle
    /\ PipeIdle

SingleNext ==
    \/ \E p \in Players : SearchAddToTeam(p)
    \/ \E p \in Players : SearchRemove(p)
    \/ \E p \in Players : \E bid \in SliderBids : \E final \in FinalPrices :
           SearchConfirmBid(p, bid, final)
    \/ \E p \in Players : SearchMarkAvailable(p)
    \/ \E p \in Players : SearchMarkSold(p)
    \/ \E p \in Players : TopAddToTeam(p)
    \/ \E p \in Players : TopMarkSold(p)
    \/ \E p \in Players : TopMarkAvailable(p)
    \/ \E p \in Players : TopBid(p)
    \/ \E p \in Players : \E bid \in SliderBids : \E final \in FinalPrices :
           TopConfirmBid(p, bid, final)
    \/ \E p \in Players : TopCancelBid(p)
    \/ ResetTeam
    \/ \E p \in Players : BuilderAddToTeam(p)
    \/ \E p \in Players : BuilderBid(p)
    \/ \E p \in Players : BuilderMarkSold(p)
    \/ \E p \in Players : \E bid \in SliderBids : \E final \in FinalPrices :
           BuilderConfirmBid(p, bid, final)
    \/ \E p \in Players : BuilderCancelBid(p)

SpecSingle == SingleInit /\ [][SingleNext]_vars

(***************************************************************************)
(* Resetting the team: a user who searches and filters, buys, bids, marks  *)
(* players as sold and resets the team.                                    *)
(***************************************************************************)
ResetInit ==
    /\ auction_guide \in Guides
    /\ init_session_state
    /\ BidIdle
    /\ PipeIdle

ResetNext ==
    \/ \E f \in FilterSettings : SetFilters(f)
    \/ ViewAllAffordable
    \/ \E p \in Players : SearchAddToTeam(p)
    \/ \E p \in Players : SearchMarkSold(p)
    \/ \E p \in Players : TopBid(p)
    \/ \E p \in Players : \E bid \in SliderBids : \E final \in FinalPrices :
           TopConfirmBid(p, bid, final)
    \/ ResetTeam

SpecReset == ResetInit /\ [][ResetNext]_vars

(***************************************************************************)
(* The batch scripts.  process_apl_data.py, clean_processed_data.py,       *)
(* combine_apl_data.py and update_combined_data.py run in this order, each *)
(* reading the file the one before wrote; one action is one run of a       *)
(* script.  A file is the sequence of its rows.                            *)
(*                                                                         *)
(* A row keeps Player_Name, Edition, Tier, Price, Position and Ranking,     *)
(* and the columns the scripts derive.  Price, Historical_Avg_Price,       *)
(* Price_Variance_From_Avg and Recommended_Price are in tenths,            *)
(* Historical_Avg_Tier and Tier_Movement in tenths of a tier, Value_Rating *)
(* and Value_Proposition in hundredths, Auction_Score in tenths.  A column *)
(* that can be NaN or None holds <<>> or <<v>>.  A Position is the         *)
(* sequence of the position names of its comma-separated string, each name *)
(* standing for its title-cased form; NaN is the empty sequence.           *)
(* apl8_players_data.csv is taken without the Value Rating and Primary     *)
(* Position columns, so that combine_apl_data.py derives them (26, 35).    *)
(***************************************************************************)
LatestEdition == "APL 8.0"

\* a row of a sheet: only apl8_players_data.csv has a Ranking column
ranked_row(name, edition, tier, price, position, ranking) ==
    [Player_Name |-> name, Edition |-> edition, Tier |-> tier, Price |-> price,
     Position |-> position, Ranking |-> ranking]

\* The rows of the tables below: an APL 6 row plays Midfielder and
\* Defender, the APL 7 tier list has no positions (process_apl_data.py 122),
\* and of the APL 8 rows A is the Goalkeeper ranked 1 and every other player
\* a Forward ranked 4.
sheet_row(name, edition, tier, price) ==
    ranked_row(name, edition, tier, price,
               IF edition = "APL 6.0" THEN <<"Midfielder", "Defender">>
               ELSE IF edition = "APL 7.0" THEN <<>>
               ELSE IF name = "A" THEN <<"Goalkeeper">>
               ELSE <<"Forward/Number 9/CAN">>,
               IF edition # "APL 8.0" THEN <<>>
               ELSE IF name = "A" THEN <<1>> ELSE <<4>>)

RECURSIVE SumTier(_)
SumTier(rows) == IF rows = <<>> THEN 0 ELSE rows[1].Tier + SumTier(Tail(rows))

\* the sum of the prices that are present
RECURSIVE SumPresentPrice(_)
SumPresentPrice(rows) ==
    IF rows = <<>> THEN 0
    ELSE (IF rows[1].Price = <<>> THEN 0 ELSE rows[1].Price[1])
         + SumPresentPrice(Tail(rows))

Unknown == <<"Unknown">>

\* str.strip(), process_apl_data.py 152: "A " is the name A followed by a
\* space
strip(name) == IF name = "A " THEN "A" ELSE name

\* process_all_data, process_apl_data.py 131-159: process_apl7 leaves Price
\* and Position NaN (121-122), fillna replaces every missing Position by
\* 'Unknown' (142) and every missing Price by 0 (146), and the names are
\* stripped (152)
ProcessAllData ==
    /\ pipeline_pc = "process"
    /\ processed_apl_data' =
          [i \in DOMAIN apl67_sheets |->
              LET row == apl67_sheets[i]
                  price == IF row.Edition = "APL 7.0" THEN <<>> ELSE row.Price
                  position == IF row.Edition = "APL 7.0" THEN <<>> ELSE row.Position
              IN  [Player_Name |-> strip(row.Player_Name),
                   Edition |-> row.Edition,
                   Tier |-> row.Tier,
                   Price |-> IF price = <<>> THEN <<0>> ELSE price,
                   Position |-> IF position = <<>> THEN Unknown ELSE position]]
    /\ pipeline_pc' = "clean"
    /\ UNCHANGED <<bidVars, dashVars, apl67_sheets, apl8_players_data,
                   apl_data_cleaned, apl_historical_data, apl_master_data,
                   apl8_auction_guide, apl8_auction_top_picks, clock>>

\* the position names of the tables, in the order of Python's string
\* comparison
alphabetical ==
    <<"Attacker", "Defender", "Forward/Number 9/CAN", "Goalkeeper", "Midfielder",
      "Unknown">>

name_index(word) == CHOOSE k \in DOMAIN alphabetical : alphabetical[k] = word

\* sorted(...), clean_processed_data.py 27
RECURSIVE sorted_names(_)
sorted_names(words) ==
    IF words = <<>> THEN <<>>
    ELSE LET least == CHOOSE k \in DOMAIN words :
                          \A j \in DOMAIN words :
                              \/ name_index(words[k]) < name_index(words[j])
                              \/ name_index(words[k]) = name_index(words[j]) /\ k <= j
         IN  <<words[least]>> \o sorted_names(RemoveAt(words, least))

\* the lambda of clean_processed_data.py 26-28
standard_position(position) ==
    IF position = Unknown THEN Unknown ELSE sorted_names(position)

\* priority.get(p, 5), clean_processed_data.py 37-40
priority(word) ==
    IF word = "Goalkeeper" THEN 1
    ELSE IF word = "Defender" THEN 2
    ELSE IF word = "Midfielder" THEN 3
    ELSE IF word = "Attacker" THEN 4
    ELSE 5

\* get_primary_position, clean_processed_data.py 31-43: the first name of
\* the least priority number
get_primary_position(position) ==
    IF position = Unknown THEN Unknown
    ELSE LET first == CHOOSE k \in DOMAIN position :
                      \A j \in DOMAIN position :
                          \/ priority(position[k]) < priority(position[j])
                          \/ priority(position[k]) = priority(position[j]) /\ k <= j
         IN  <<position[first]>>

\* round((tier_multiplier * 10) / price, 2) with the price in tenths
value_rating_of(tier, price) == RoundHalfEven((5 - tier) * 10000, price)

\* the same quotient cut, not rounded, to 2 decimals
calculate_value_truncated(row) ==
    IF row.Price[1] = 0 THEN 0
    ELSE FloorDiv((5 - row.Tier) * 10000, row.Price[1])

\* calculate_value, clean_processed_data.py 72-77
calculate_value(row) ==
    IF row.Price[1] = 0 THEN 0
    ELSE value_rating_of(row.Tier, row.Price[1])

\* clean_processed_data.py: the Position is standardized (26-28) and gives
\* the Primary Position (46); Value Rating (79) is computed from the Price
\* as read, then Price is rounded to an integer (85)
CleanProcessedData ==
    /\ pipeline_pc = "clean"
    /\ apl_data_cleaned' =
          [i \in DOMAIN processed_apl_data |->
              LET row == processed_apl_data[i]
              IN  [Player_Name |-> row.Player_Name,
                   Edition |-> row.Edition,
                   Tier |-> row.Tier,
                   Price |-> <<RoundHalfEven(row.Price[1], 10) * 10>>,
                   Position |-> standard_position(row.Position),
                   Primary_Position |->
                       get_primary_position(standard_position(row.Position)),
                   Value_Rating |-> calculate_value(row)]]
    /\ pipeline_pc' = "combine"
    /\ UNCHANGED <<bidVars, dashVars, apl67_sheets, apl8_players_data,
                   processed_apl_data, apl_historical_data, apl_master_data,
                   apl8_auction_guide, apl8_auction_top_picks, clock>>

\* calculate_value_rating, combine_apl_data.py 35-39
calculate_value_rating(row) ==
    IF row.Price = <<>> THEN 0
    ELSE IF row.Price[1] = 0 THEN 0
    ELSE value_rating_of(row.Tier, row.Price[1])

\* the number of the player's rows, not of their distinct editions
edition_count_of_rows(df, name) ==
    Cardinality({j \in DOMAIN df : df[j].Player_Name = name})

\* groupby('Player Name')['Edition'].nunique(), combine_apl_data.py 75
edition_count(df, name) ==
    Cardinality({df[i].Edition : i \in {j \in DOMAIN df : df[j].Player_Name = name}})

\* Step 9, combine_apl_data.py 81-100: the 'Unknown' position of an older
\* row of a recurring player becomes that of the player's first APL 8 row
with_recent_position(df) ==
    [i \in DOMAIN df |->
        LET row == df[i]
            recent_data == SelectSeq(df, LAMBDA r : r.Player_Name = row.Player_Name
                                                    /\ r.Edition = LatestEdition)
            updated == /\ row.Edition_Count > 1
                       /\ recent_data # <<>>
                       /\ recent_data[1].Position # <<>>
                       /\ row.Edition # LatestEdition
                       /\ row.Position = Unknown
        IN  IF updated
            THEN [row EXCEPT !.Position = recent_data[1].Position,
                             !.Primary_Position = recent_data[1].Primary_Position]
            ELSE row]

\* combine_apl_data, combine_apl_data.py 4-137: the APL 8 rows get their
\* Primary Position (28) and Value Rating (42), the cleaned rows a NaN
\* Ranking (46); the APL 8 rows follow the cleaned rows (67), every row gets
\* its Edition Count (75-77), and a missing position becomes 'Unknown'
\* (129-130)
CombineAplData ==
    /\ pipeline_pc = "combine"
    /\ LET apl67_df == [i \in DOMAIN apl_data_cleaned |->
                           LET row == apl_data_cleaned[i]
                           IN  [Player_Name |-> row.Player_Name,
                                Edition |-> row.Edition,
                                Tier |-> row.Tier,
                                Price |-> row.Price,
                                Position |-> row.Position,
                                Primary_Position |-> row.Primary_Position,
                                Ranking |-> <<>>,
                                Value_Rating |-> row.Value_Rating]]
           apl8_df == [i \in DOMAIN apl8_players_data |->
                          LET row == apl8_players_data[i]
                          IN  [Player_Name |-> row.Player_Name,
                               Edition |-> row.Edition,
                               Tier |-> row.Tier,
                               Price |-> row.Price,
                               Position |-> row.Position,
                               Primary_Position |-> row.Position,
                               Ranking |-> row.Ranking,
                               Value_Rating |-> calculate_value_rating(row)]]
           combined_df == apl67_df \o apl8_df
           counted_df ==
              [i \in DOMAIN combined_df |->
                  [Player_Name |-> combined_df[i].Player_Name,
                   Edition |-> combined_df[i].Edition,
                   Tier |-> combined_df[i].Tier,
                   Price |-> combined_df[i].Price,
                   Position |-> combined_df[i].Position,
                   Primary_Position |-> combined_df[i].Primary_Position,
                   Ranking |-> combined_df[i].Ranking,
                   Value_Rating |-> combined_df[i].Value_Rating,
                   Edition_Count |->
                       edition_count(combined_df, combined_df[i].Player_Name)]]
           positioned_df == with_recent_position(counted_df)
       IN  apl_historical_data' =
              [i \in DOMAIN positioned_df |->
                  LET row == positioned_df[i]
                  IN  [row EXCEPT
                          !.Position = IF row.Position = <<>> THEN Unknown
                                       ELSE row.Position,
                          !.Primary_Position =
                              IF row.Primary_Position = <<>> THEN Unknown
                              ELSE row.Primary_Position]]
    /\ pipeline_pc' = "update"
    /\ UNCHANGED <<bidVars, dashVars, apl67_sheets, apl8_players_data,
                   processed_apl_data, apl_data_cleaned, apl_master_data,
                   apl8_auction_guide, apl8_auction_top_picks, clock>>

(***************************************************************************)
(* update_combined_data.py.                                                *)
(***************************************************************************)
name_rows(df, name) == SelectSeq(df, LAMBDA r : r.Player_Name = name)
priced_rows(df, name) ==
    SelectSeq(df, LAMBDA r : r.Player_Name = name /\ r.Price # <<>>)

\* Price mean of the player's rows (29-33; NaN prices are skipped), rounded
\* to 1 decimal (52)
Historical_Avg_Price(df, name) ==
    LET rows == priced_rows(df, name)
    IN  IF rows = <<>> THEN <<>>
        ELSE <<RoundHalfEven(SumPresentPrice(rows), Len(rows))>>

\* Tier mean of the player's rows, rounded to 1 decimal (53)
Historical_Avg_Tier(df, name) ==
    LET rows == name_rows(df, name)
    IN  RoundHalfEven(10 * SumTier(rows), Len(rows))

\* the lambda of 65-68
Price_Variance_From_Avg(row) ==
    IF row.Edition_Count > 1
    THEN IF row.Price = <<>> \/ row.Historical_Avg_Price = <<>> THEN <<>>
         ELSE <<row.Price[1] - row.Historical_Avg_Price[1]>>
    ELSE <<0>>

\* calculate_tier_movement without its first test
calculate_tier_movement_unguarded(row) ==
    IF row.Edition = LatestEdition
    THEN 10 * row.Tier - row.Historical_Avg_Tier
    ELSE 0

\* calculate_tier_movement without its test of the edition
calculate_tier_movement_any_edition(row) ==
    IF row.Edition_Count <= 1 THEN 0
    ELSE 10 * row.Tier - row.Historical_Avg_Tier

\* calculate_tier_movement, 71-80
calculate_tier_movement(row) ==
    IF row.Edition_Count <= 1 THEN 0
    ELSE IF row.Edition = LatestEdition
         THEN 10 * row.Tier - row.Historical_Avg_Tier
         ELSE 0

\* calculate_value_proposition without its factor for the tier movement
calculate_value_proposition_no_tier_factor(row) ==
    IF row.Edition # LatestEdition THEN <<>>
    ELSE LET variance == row.Price_Variance_From_Avg
             price_factor == IF row.Edition_Count > 1 /\ variance # <<>>
                             THEN IF variance[1] < 0 THEN 12
                                  ELSE IF variance[1] > 0 THEN 8
                                  ELSE 10
                             ELSE 10
         IN  <<RoundHalfEven(row.Value_Rating * 10 * price_factor, 100)>>

\* calculate_value_proposition without its test of the edition
calculate_value_proposition_any_edition(row) ==
    LET tier_factor == IF row.Tier_Movement < 0 THEN 12
                       ELSE IF row.Tier_Movement > 0 THEN 8
                       ELSE 10
        variance == row.Price_Variance_From_Avg
        price_factor == IF row.Edition_Count > 1 /\ variance # <<>>
                        THEN IF variance[1] < 0 THEN 12
                             ELSE IF variance[1] > 0 THEN 8
                             ELSE 10
                        ELSE 10
    IN  <<RoundHalfEven(row.Value_Rating * tier_factor * price_factor, 100)>>

\* calculate_value_proposition, 86-110; a comparison with NaN is false
calculate_value_proposition(row) ==
    IF row.Edition # LatestEdition THEN <<>>
    ELSE LET tier_factor == IF row.Tier_Movement < 0 THEN 12
                            ELSE IF row.Tier_Movement > 0 THEN 8
                            ELSE 10
             variance == row.Price_Variance_From_Avg
             price_factor == IF row.Edition_Count > 1 /\ variance # <<>>
                             THEN IF variance[1] < 0 THEN 12
                                  ELSE IF variance[1] > 0 THEN 8
                                  ELSE 10
                             ELSE 10
         IN  <<RoundHalfEven(row.Value_Rating * tier_factor * price_factor, 100)>>

\* min(0.3, 0.1 * Edition Count), in tenths (134)
historical_weight(row) == Min2(3, row.Edition_Count)

\* blended_price after 136, in hundredths
blended_price(row) ==
    (10 - historical_weight(row)) * row.Price[1]
        + historical_weight(row) * row.Historical_Avg_Price[1]

\* the factor of 139-145, in thousandths
tier_adjustment(row) ==
    IF row.Tier_Movement < 0 THEN 1000 + Abs(row.Tier_Movement) * 5
    ELSE IF row.Tier_Movement > 0 THEN 1000 - row.Tier_Movement * 5
    ELSE 1000

\* recommend_price blending whatever the Edition Count
recommend_price_blend_always(row) ==
    IF row.Edition # LatestEdition THEN <<>>
    ELSE <<RoundHalfEven(blended_price(row) * tier_adjustment(row), 100000) * 10>>

\* recommend_price without its adjustment for the tier movement
recommend_price_unadjusted(row) ==
    IF row.Edition # LatestEdition THEN <<>>
    ELSE IF row.Edition_Count > 1
         THEN <<RoundHalfEven(blended_price(row), 100) * 10>>
         ELSE row.Price

\* recommend_price, 128-153
recommend_price(row) ==
    IF row.Edition # LatestEdition THEN <<>>
    ELSE IF row.Edition_Count > 1
         THEN <<RoundHalfEven(blended_price(row) * tier_adjustment(row), 100000) * 10>>
         ELSE row.Price

\* Steps 2-3 (29-62): the historical averages, merged on Player Name
with_history(df) ==
    [i \in DOMAIN df |->
        [Player_Name |-> df[i].Player_Name,
         Edition |-> df[i].Edition,
         Tier |-> df[i].Tier,
         Price |-> df[i].Price,
         Position |-> df[i].Position,
         Primary_Position |-> df[i].Primary_Position,
         Ranking |-> df[i].Ranking,
         Value_Rating |-> df[i].Value_Rating,
         Edition_Count |-> df[i].Edition_Count,
         Historical_Avg_Price |-> Historical_Avg_Price(df, df[i].Player_Name),
         Historical_Avg_Tier |-> Historical_Avg_Tier(df, df[i].Player_Name)]]

\* Steps 4-5 (65-82)
with_movement(df) ==
    [i \in DOMAIN df |->
        [Player_Name |-> df[i].Player_Name,
         Edition |-> df[i].Edition,
         Tier |-> df[i].Tier,
         Price |-> df[i].Price,
         Position |-> df[i].Position,
         Primary_Position |-> df[i].Primary_Position,
         Ranking |-> df[i].Ranking,
         Value_Rating |-> df[i].Value_Rating,
         Edition_Count |-> df[i].Edition_Count,
         Historical_Avg_Price |-> df[i].Historical_Avg_Price,
         Historical_Avg_Tier |-> df[i].Historical_Avg_Tier,
         Price_Variance_From_Avg |-> Price_Variance_From_Avg(df[i]),
         Tier_Movement |-> calculate_tier_movement(df[i])]]

\* Steps 6 and 9 with the recommended price written over the Price of the
\* rows that have one
with_valuation_repricing(df) ==
    [i \in DOMAIN df |->
        [Player_Name |-> df[i].Player_Name,
         Edition |-> df[i].Edition,
         Tier |-> df[i].Tier,
         Price |-> IF recommend_price(df[i]) = <<>> THEN df[i].Price
                   ELSE recommend_price(df[i]),
         Position |-> df[i].Position,
         Primary_Position |-> df[i].Primary_Position,
         Ranking |-> df[i].Ranking,
         Value_Rating |-> df[i].Value_Rating,
         Edition_Count |-> df[i].Edition_Count,
         Historical_Avg_Price |-> df[i].Historical_Avg_Price,
         Historical_Avg_Tier |-> df[i].Historical_Avg_Tier,
         Price_Variance_From_Avg |-> df[i].Price_Variance_From_Avg,
         Tier_Movement |-> df[i].Tier_Movement,
         Value_Proposition |-> calculate_value_proposition(df[i]),
         Recommended_Price |-> recommend_price(df[i])]]

\* Steps 6 and 9 (112, 155)
with_valuation(df) ==
    [i \in DOMAIN df |->
        [Player_Name |-> df[i].Player_Name,
         Edition |-> df[i].Edition,
         Tier |-> df[i].Tier,
         Price |-> df[i].Price,
         Position |-> df[i].Position,
         Primary_Position |-> df[i].Primary_Position,
         Ranking |-> df[i].Ranking,
         Value_Rating |-> df[i].Value_Rating,
         Edition_Count |-> df[i].Edition_Count,
         Historical_Avg_Price |-> df[i].Historical_Avg_Price,
         Historical_Avg_Tier |-> df[i].Historical_Avg_Tier,
         Price_Variance_From_Avg |-> df[i].Price_Variance_From_Avg,
         Tier_Movement |-> df[i].Tier_Movement,
         Value_Proposition |-> calculate_value_proposition(df[i]),
         Recommended_Price |-> recommend_price(df[i])]]

\* groupby('Tier')['Ranking'].min() over the APL 8 rows (115): NaN
\* rankings are skipped, and a tier without a ranking has none
Tier_Min_Ranking(df, tier) ==
    LET rankings == {df[i].Ranking[1] :
                        i \in {j \in DOMAIN df : /\ df[j].Edition = LatestEdition
                                                 /\ df[j].Tier = tier
                                                 /\ df[j].Ranking # <<>>}}
    IN  IF rankings = {} THEN <<>>
        ELSE <<CHOOSE r \in rankings : \A q \in rankings : r <= q>>

\* the comparison of 119 without its test of the edition, a missing ranking
\* counted as 0
Is_Tier_Top_any_edition(df, row) ==
    /\ Tier_Min_Ranking(df, row.Tier) # <<>>
    /\ (IF row.Ranking = <<>> THEN 0 ELSE row.Ranking[1])
           <= Tier_Min_Ranking(df, row.Tier)[1] + 2

\* the lambda of 119; a comparison with NaN is false
Is_Tier_Top(df, row) ==
    IF row.Edition = LatestEdition
    THEN /\ row.Ranking # <<>>
         /\ Tier_Min_Ranking(df, row.Tier) # <<>>
         /\ row.Ranking[1] <= Tier_Min_Ranking(df, row.Tier)[1] + 2
    ELSE FALSE

\* Steps 7 and 8 (115-125): Is_Tier_Top, and the day of the run
with_tier_top(df, day) ==
    [i \in DOMAIN df |->
        [Player_Name |-> df[i].Player_Name,
         Edition |-> df[i].Edition,
         Tier |-> df[i].Tier,
         Price |-> df[i].Price,
         Position |-> df[i].Position,
         Primary_Position |-> df[i].Primary_Position,
         Ranking |-> df[i].Ranking,
         Value_Rating |-> df[i].Value_Rating,
         Edition_Count |-> df[i].Edition_Count,
         Historical_Avg_Price |-> df[i].Historical_Avg_Price,
         Historical_Avg_Tier |-> df[i].Historical_Avg_Tier,
         Price_Variance_From_Avg |-> df[i].Price_Variance_From_Avg,
         Tier_Movement |-> df[i].Tier_Movement,
         Value_Proposition |-> df[i].Value_Proposition,
         Recommended_Price |-> df[i].Recommended_Price,
         Is_Tier_Top |-> Is_Tier_Top(df, df[i]),
         Export_Date |-> day]]

\* round(blended_price) of 150 raises ValueError on NaN: an APL 8 row of a
\* returning player without a Price
round_raises(df) ==
    \E i \in DOMAIN df :
        /\ df[i].Edition = LatestEdition
        /\ df[i].Edition_Count > 1
        /\ (df[i].Price = <<>> \/ df[i].Historical_Avg_Price = <<>>)

\* the whole of 22-155 on the table read at 14
valuation_engine(combined_df, day) ==
    with_tier_top(with_valuation(with_movement(with_history(combined_df))), day)

\* a run that appends its rows to the apl_master_data.csv it finds
UpdateCombinedData_appending ==
    /\ pipeline_pc \in {"update", "guide", "picks", "done"}
    /\ IF round_raises(with_history(apl_historical_data))
       THEN /\ apl_master_data' = apl_master_data
            /\ pipeline_pc' = "failed"
       ELSE /\ apl_master_data' =
                  apl_master_data \o valuation_engine(apl_historical_data, clock)
            /\ pipeline_pc' = IF pipeline_pc = "update" THEN "guide" ELSE pipeline_pc
    /\ UNCHANGED <<bidVars, dashVars, apl67_sheets, apl8_players_data,
                   processed_apl_data, apl_data_cleaned, apl_historical_data,
                   apl8_auction_guide, apl8_auction_top_picks, clock>>

\* The run of update_combined_data.py, 13-158: it reads
\* apl_historical_data.csv and writes apl_master_data.csv (158) unless
\* round() raised before.  The script can be run again once it has run.
UpdateCombinedData ==
    /\ pipeline_pc \in {"update", "guide", "picks", "done"}
    /\ IF round_raises(with_history(apl_historical_data))
       THEN /\ apl_master_data' = apl_master_data
            /\ pipeline_pc' = "failed"
       ELSE /\ apl_master_data' = valuation_engine(apl_historical_data, clock)
            /\ pipeline_pc' = IF pipeline_pc = "update" THEN "guide" ELSE pipeline_pc
    /\ UNCHANGED <<bidVars, dashVars, apl67_sheets, apl8_players_data,
                   processed_apl_data, apl_data_cleaned, apl_historical_data,
                   apl8_auction_guide, apl8_auction_top_picks, clock>>

(***************************************************************************)
(* generate_auction_guide.py.  A Bidding_Strategy is kept as its target,   *)
(* its range and its notes.                                                *)
(***************************************************************************)
\* Auction_Priority with the two bounds counted in the higher class
Auction_Priority_inclusive(row) ==
    IF row.Is_Tier_Top
          \/ (row.Value_Proposition # <<>> /\ row.Value_Proposition[1] >= 150)
    THEN "High"
    ELSE IF row.Value_Proposition # <<>> /\ row.Value_Proposition[1] >= 100
         THEN "Medium"
         ELSE "Low"

\* the lambda of 27-28; a comparison with NaN is false
Auction_Priority(row) ==
    IF row.Is_Tier_Top
          \/ (row.Value_Proposition # <<>> /\ row.Value_Proposition[1] > 150)
    THEN "High"
    ELSE IF row.Value_Proposition # <<>> /\ row.Value_Proposition[1] > 100
         THEN "Medium"
         ELSE "Low"

\* the notes of 42-64, in the order they are appended
strategy_notes(row) ==
    (IF row.Edition_Count > 1 /\ row.Tier_Movement < 0 THEN <<"Improved tier">>
     ELSE IF row.Edition_Count > 1 /\ row.Tier_Movement > 0 THEN <<"Declined tier">>
     ELSE <<>>)
    \o (IF row.Edition_Count > 1 /\ row.Price_Variance_From_Avg # <<>>
        THEN IF row.Price_Variance_From_Avg[1] < -100
             THEN <<"Significantly cheaper than history">>
             ELSE IF row.Price_Variance_From_Avg[1] > 100
                  THEN <<"Significantly more expensive than history">>
                  ELSE <<>>
        ELSE <<>>)
    \o (IF row.Value_Proposition # <<>> /\ row.Value_Proposition[1] > 150
        THEN <<"Excellent value">>
        ELSE IF row.Value_Proposition # <<>> /\ row.Value_Proposition[1] < 50
             THEN <<"Poor value">>
             ELSE <<>>)
    \o (IF row.Is_Tier_Top THEN <<"Top in tier">> ELSE <<>>)

\* bidding_strategy, 33-70, of a row with a Recommended_Price; the bids are
\* whole units
bidding_strategy(row) ==
    LET rec_price == row.Recommended_Price[1]
        rounded_min == RoundHalfEven(rec_price * 8, 100)
    IN  [Target |-> rec_price,
         min_bid |-> IF rounded_min < 5 THEN 5 ELSE rounded_min,
         max_bid |-> RoundHalfEven(rec_price * 12, 100),
         notes |-> strategy_notes(row)]

\* sort_values(['Tier', 'Value_Score'], ascending=[True, False]), 88: rows of
\* equal keys keep their order, a NaN score comes last in its tier
guide_before(a, b) ==
    \/ a.Tier < b.Tier
    \/ /\ a.Tier = b.Tier
       /\ a.Value_Score # <<>>
       /\ (b.Value_Score = <<>> \/ a.Value_Score[1] > b.Value_Score[1])

RECURSIVE sort_guide(_)
sort_guide(rows) ==
    IF rows = <<>> THEN <<>>
    ELSE LET i == CHOOSE k \in DOMAIN rows :
                      /\ \A j \in DOMAIN rows : ~guide_before(rows[j], rows[k])
                      /\ \A j \in 1..(k - 1) : guide_before(rows[k], rows[j])
         IN  <<rows[i]>> \o sort_guide(RemoveAt(rows, i))

\* 14-97: the APL 8 rows, with Auction_Priority and Bidding_Strategy, under
\* the names of the guide, and the day of the run
guide_rows(df, day) ==
    LET apl8_players == SelectSeq(df, LAMBDA r : r.Edition = LatestEdition)
    IN  [i \in DOMAIN apl8_players |->
            LET row == apl8_players[i]
            IN  [Player |-> row.Player_Name,
                 Tier |-> row.Tier,
                 All_Positions |-> row.Position,
                 Primary_Position |-> row.Primary_Position,
                 Price |-> row.Price,
                 Value_Rating |-> row.Value_Rating,
                 Ranking |-> row.Ranking,
                 Historical_Avg |-> row.Historical_Avg_Price,
                 Price_Variance |-> row.Price_Variance_From_Avg,
                 Tier_Movement |-> row.Tier_Movement,
                 Value_Score |-> row.Value_Proposition,
                 Top_In_Tier |-> row.Is_Tier_Top,
                 Recommended |-> row.Recommended_Price,
                 APL_Editions |-> row.Edition_Count,
                 Auction_Priority |-> Auction_Priority(row),
                 Bidding_Strategy |-> bidding_strategy(row),
                 Generated |-> day]]

\* round(rec_price * 0.8) of 36 raises ValueError on a NaN Recommended_Price
strategy_raises(df) ==
    \E i \in DOMAIN df :
        df[i].Edition = LatestEdition /\ df[i].Recommended_Price = <<>>

\* The run of generate_auction_guide.py, 10-101: it reads
\* apl_master_data.csv and writes apl8_auction_guide.csv (101) unless round()
\* raised before.
GenerateAuctionGuide ==
    /\ pipeline_pc = "guide"
    /\ IF strategy_raises(apl_master_data)
       THEN /\ apl8_auction_guide' = apl8_auction_guide
            /\ pipeline_pc' = "failed"
       ELSE /\ apl8_auction_guide' = sort_guide(guide_rows(apl_master_data, clock))
            /\ pipeline_pc' = "picks"
    /\ UNCHANGED <<bidVars, dashVars, apl67_sheets, apl8_players_data,
                   processed_apl_data, apl_data_cleaned, apl_historical_data,
                   apl_master_data, apl8_auction_top_picks, clock>>

(***************************************************************************)
(* generate_auction_top_picks.py.                                          *)
(***************************************************************************)
\* history_factor of 21-27, in hundredths
history_factor(row) ==
    (IF row.APL_Editions > 1 THEN 11 ELSE 10) * (IF row.Top_In_Tier THEN 12 ELSE 10)

\* final_score of 30 in units of 1/8000: Value_Score * 5 / 100 times
\* (5 - Tier) / 4 times history_factor / 100
final_score(row) == row.Value_Score[1] * (5 - row.Tier) * history_factor(row)

\* the exact final_score lies halfway between two tenths
halfway(row) == row.Value_Score # <<>> /\ final_score(row) % 800 = 400

\* calculate_auction_score without the bonus for the top players of a tier
calculate_auction_score_no_top_bonus(row, float_above) ==
    IF row.Value_Score = <<>> THEN <<>>
    ELSE <<RoundHalfEven(row.Value_Score[1] * (5 - row.Tier)
                             * (IF row.APL_Editions > 1 THEN 110 ELSE 100),
                         800)>>

\* calculate_auction_score, 13-31, in tenths; float_above tells on which
\* side of a halfway value the float product fell
calculate_auction_score(row, float_above) ==
    IF row.Value_Score = <<>> THEN <<>>
    ELSE IF halfway(row)
         THEN <<FloorDiv(final_score(row), 800) + (IF float_above THEN 1 ELSE 0)>>
         ELSE <<RoundHalfEven(final_score(row), 800)>>

\* position_map, 40-49, applied by map (51): a position not in it gives NaN
position_map(primary) ==
    IF primary = Unknown THEN <<"Other">>
    ELSE IF primary = <<"Reserve Player">> THEN <<"Reserve">>
    ELSE IF primary = <<"Star Player">> THEN <<"Star Player">>
    ELSE IF primary \in {<<"Ball Playing Center Back">>, <<"Center Back (Sweeper)">>}
         THEN <<"Defender">>
    ELSE IF primary = <<"Box-to-Box Midfielder">> THEN <<"Midfielder">>
    ELSE IF primary = <<"Forward/Number 9/CAN">> THEN <<"Forward">>
    ELSE IF primary = <<"Goalkeeper">> THEN <<"Goalkeeper">>
    ELSE <<>>

\* the keys of groupby('Position_Group') in its order, 'Other' left out (72),
\* and their categories (74)
position_groups == <<"Defender", "Forward", "Goalkeeper", "Midfielder", "Reserve",
                     "Star Player">>
top_position == <<"Top Defender", "Top Forward", "Top Goalkeeper", "Top Midfielder",
                  "Top Reserve", "Top Star Player">>
\* f'Tier {int(tier)}', 64
tier_label == <<"Tier 1", "Tier 2", "Tier 3", "Tier 4">>

\* the categories in the order of Python's string comparison
category_order ==
    <<"Best Value">> \o tier_label
        \o <<"Top Defender", "Top Forward", "Top Goalkeeper", "Top Midfielder",
             "Top Overall", "Top Reserve", "Top Star Player">>

category_index(c) == CHOOSE k \in DOMAIN category_order : category_order[k] = c

\* a score before another in a descending sort; NaN comes last
score_before(x, y) == x # <<>> /\ (y = <<>> \/ x[1] > y[1])

\* sort_values('Auction_Score', ascending=False); rows of equal score keep
\* their order
RECURSIVE sort_by_score(_)
sort_by_score(rows) ==
    IF rows = <<>> THEN <<>>
    ELSE LET i == CHOOSE k \in DOMAIN rows :
                      /\ \A j \in DOMAIN rows :
                            ~score_before(rows[j].Auction_Score, rows[k].Auction_Score)
                      /\ \A j \in 1..(k - 1) :
                            score_before(rows[k].Auction_Score, rows[j].Auction_Score)
         IN  <<rows[i]>> \o sort_by_score(RemoveAt(rows, i))

\* the best n rows of a selection, under a category (58-59, 65-66, 73-74,
\* 78-79)
top_of(rows, n, category) ==
    LET best == head_n(sort_by_score(rows), n)
    IN  [i \in DOMAIN best |->
            [Player |-> best[i].Player,
             Tier |-> best[i].Tier,
             Position_Group |-> best[i].Position_Group,
             Primary_Position |-> best[i].Primary_Position,
             Price |-> best[i].Price,
             Value_Score |-> best[i].Value_Score,
             Auction_Score |-> best[i].Auction_Score,
             Recommended |-> best[i].Recommended,
             Historical_Avg |-> best[i].Historical_Avg,
             APL_Editions |-> best[i].APL_Editions,
             Bidding_Strategy |-> best[i].Bidding_Strategy,
             Category |-> category]]

\* the concatenation of f(1), ..., f(n)
RECURSIVE concat(_, _)
concat(f(_), n) == IF n = 0 THEN <<>> ELSE concat(f, n - 1) \o f(n)

\* drop_duplicates(subset=['Player', 'Category']), 86: the first row of each
\* pair stays
drop_duplicates(rows) ==
    SelectSeq([i \in DOMAIN rows |->
                  [row |-> rows[i],
                   first |-> \A j \in 1..(i - 1) :
                                 \/ rows[j].Player # rows[i].Player
                                 \/ rows[j].Category # rows[i].Category]],
              LAMBDA e : e.first)

\* sort_values(['Category', 'Auction_Score'], ascending=[True, False]), 118
picks_before(a, b) ==
    \/ category_index(a.Category) < category_index(b.Category)
    \/ /\ a.Category = b.Category
       /\ score_before(a.Auction_Score, b.Auction_Score)

RECURSIVE sort_picks(_)
sort_picks(rows) ==
    IF rows = <<>> THEN <<>>
    ELSE LET i == CHOOSE k \in DOMAIN rows :
                      /\ \A j \in DOMAIN rows : ~picks_before(rows[j], rows[k])
                      /\ \A j \in 1..(k - 1) : picks_before(rows[k], rows[j])
         IN  <<rows[i]>> \o sort_picks(RemoveAt(rows, i))

\* 34-118: the scored guide, its selections one after the other, without
\* duplicates, sorted; above holds the rows whose float product fell above a
\* halfway value
top_picks_of(guide, above) ==
    LET df == [i \in DOMAIN guide |->
                  [Player |-> guide[i].Player,
                   Tier |-> guide[i].Tier,
                   Position_Group |-> position_map(guide[i].Primary_Position),
                   Primary_Position |-> guide[i].Primary_Position,
                   Price |-> guide[i].Price,
                   Value_Score |-> guide[i].Value_Score,
                   Auction_Score |-> calculate_auction_score(guide[i], i \in above),
                   Recommended |-> guide[i].Recommended,
                   Historical_Avg |-> guide[i].Historical_Avg,
                   APL_Editions |-> guide[i].APL_Editions,
                   Bidding_Strategy |-> guide[i].Bidding_Strategy]]
        top_overall == top_of(df, 20, "Top Overall")
        top_tier(tier) ==
            top_of(SelectSeq(df, LAMBDA r : r.Tier = tier), 5, tier_label[tier])
        top_group(k) ==
            top_of(SelectSeq(df, LAMBDA r : r.Position_Group = <<position_groups[k]>>),
                   5, top_position[k])
        best_value ==
            top_of(SelectSeq(df, LAMBDA r : r.Value_Score # <<>>
                                            /\ r.Value_Score[1] > 150),
                   10, "Best Value")
        combined_picks == top_overall \o concat(top_tier, 4)
                              \o concat(top_group, Len(position_groups))
                              \o best_value
        final_picks == drop_duplicates(combined_picks)
    IN  sort_picks([i \in DOMAIN final_picks |-> final_picks[i].row])

\* The run of generate_auction_top_picks.py, 10-121: it reads
\* apl8_auction_guide.csv and writes apl8_auction_top_picks.csv.
GenerateAuctionTopPicks ==
    /\ pipeline_pc = "picks"
    /\ \E above \in SUBSET {i \in DOMAIN apl8_auction_guide :
                               halfway(apl8_auction_guide[i])} :
          apl8_auction_top_picks' = top_picks_of(apl8_auction_guide, above)
    /\ pipeline_pc' = "done"
    /\ UNCHANGED <<bidVars, dashVars, apl67_sheets, apl8_players_data,
                   processed_apl_data, apl_data_cleaned, apl_historical_data,
                   apl_master_data, apl8_auction_guide, clock>>

PipelineNext ==
    \/ ProcessAllData
    \/ CleanProcessedData
    \/ CombineAplData
    \/ UpdateCombinedData
    \/ GenerateAuctionGuide
    \/ GenerateAuctionTopPicks

\* a set of rows as the rows of a sheet, in some order
RECURSIVE rows_of(_)
rows_of(S) ==
    IF S = {} THEN <<>>
    ELSE LET r == CHOOSE x \in S : TRUE
         IN  <<r>> \o rows_of(S \ {r})

\* The workbooks hold the rows S of APL 6.0 and APL 7.0 (APL 6 first, 129-133
\* of process_apl_data.py) and apl8_players_data.csv those of APL 8.0.
PipelineStart(S) ==
    /\ apl67_sheets = rows_of({r \in S : r.Edition = "APL 6.0"})
                         \o rows_of({r \in S : r.Edition = "APL 7.0"})
    /\ apl8_players_data = rows_of({r \in S : r.Edition = LatestEdition})
    /\ processed_apl_data = <<>>
    /\ apl_data_cleaned = <<>>
    /\ apl_historical_data = <<>>
    /\ apl_master_data = <<>>
    /\ apl8_auction_guide = <<>>
    /\ apl8_auction_top_picks = <<>>
    /\ pipeline_pc = "process"
    /\ clock = 1

(***************************************************************************)
(* One row of an earlier edition and one row of the latest edition         *)
(* through the scripts: every tier, and prices that are missing, zero,     *)
(* below one unit, and whole.                                              *)
(***************************************************************************)
\* prices in tenths: 0, 0.4, 0.5, 1.5, 3, 16, 20
RatingPrices == {<<>>, <<0>>, <<4>>, <<5>>, <<15>>, <<30>>, <<160>>, <<200>>}

\* the APL 7 tier list has no prices (process_apl_data.py 91-121)
EarlierRows ==
    {sheet_row("A", "APL 6.0", t, p) : t \in 1..4, p \in RatingPrices}
    \cup {sheet_row("A", "APL 7.0", t, <<>>) : t \in 1..4}

LatestRows == {sheet_row("B", LatestEdition, t, p) : t \in 1..4, p \in RatingPrices}

RatingInit ==
    /\ \E old \in EarlierRows : \E new \in LatestRows : PipelineStart({old, new})
    /\ BidIdle
    /\ DashIdle

SpecRating == RatingInit /\ [][PipelineNext]_vars

(***************************************************************************)
(* Tables of up to MaxRecords rows of two players over the three editions. *)
(***************************************************************************)
EngineRows ==
    {sheet_row(n, "APL 6.0", t, <<p>>) : n \in {"A", "B"}, t \in 1..4, p \in {100, 250}}
    \cup {sheet_row(n, "APL 7.0", t, <<>>) : n \in {"A", "B"}, t \in 1..4}
    \cup {sheet_row(n, LatestEdition, t, <<p>>) : n \in {"A", "B"}, t \in 1..4, p \in {0, 5, 200}}

\* the sets of at most k rows
RECURSIVE row_sets(_)
row_sets(k) ==
    IF k = 0 THEN {{}}
    ELSE LET smaller == row_sets(k - 1)
         IN  smaller \cup {S \cup {r} : S \in smaller, r \in EngineRows}

EngineInit ==
    /\ \E S \in row_sets(MaxRecords) \ {{}} : PipelineStart(S)
    /\ BidIdle
    /\ DashIdle

SpecEngine == EngineInit /\ [][PipelineNext]_vars

(***************************************************************************)
(* Tables of up to MaxRecords rows whose prices and tiers give every pair  *)
(* of a tier factor and a price factor of the value proposition.           *)
(***************************************************************************)
PropositionRows ==
    {sheet_row(n, "APL 6.0", t, <<p>>) : n \in {"A", "B"}, t \in {1, 3}, p \in {400, 500}}
    \cup {sheet_row(n, "APL 7.0", t, <<>>) : n \in {"A", "B"}, t \in {1, 3}}
    \cup {sheet_row(n, LatestEdition, t, <<p>>) :
              n \in {"A", "B"}, t \in 1..3, p \in {0, 400}}

\* the sets of at most k of the rows
RECURSIVE proposition_sets(_)
proposition_sets(k) ==
    IF k = 0 THEN {{}}
    ELSE LET smaller == proposition_sets(k - 1)
         IN  smaller \cup {S \cup {r} : S \in smaller, r \in PropositionRows}

PropositionInit ==
    /\ \E S \in proposition_sets(MaxRecords) \ {{}} : PipelineStart(S)
    /\ BidIdle
    /\ DashIdle

SpecProposition == PropositionInit /\ [][PipelineNext]_vars

(***************************************************************************)
(* Tables of the latest edition alone: up to four players in tiers 1 and   *)
(* 2, each with a ranking in 1..MaxRanking, so that a tier can hold equal  *)
(* rankings and rankings that are not consecutive.                         *)
(***************************************************************************)
RankedNames == {"A", "B", "C", "D"}

\* a player is absent or has one row
RankedEntries ==
    {<<>>} \cup {<<tier, ranking>> : tier \in {1, 2}, ranking \in 1..MaxRanking}

ranked_rows(entry) ==
    {ranked_row(n, LatestEdition, entry[n][1], <<200>>, <<"Star Player">>,
                <<entry[n][2]>>) :
        n \in {x \in RankedNames : entry[x] # <<>>}}

TierTopInit ==
    /\ \E entry \in [RankedNames -> RankedEntries] :
          ranked_rows(entry) # {} /\ PipelineStart(ranked_rows(entry))
    /\ BidIdle
    /\ DashIdle

SpecTierTop == TierTopInit /\ [][PipelineNext]_vars

(***************************************************************************)
(* Tables of up to MaxRecords rows of the names A, A followed by a space,  *)
(* and B over the three editions.                                          *)
(***************************************************************************)
EditionRows ==
    {sheet_row(n, "APL 6.0", t, <<100>>) : n \in {"A", "A ", "B"}, t \in {1, 2}}
    \cup {sheet_row(n, "APL 7.0", t, <<>>) : n \in {"A", "A ", "B"}, t \in {1, 2}}
    \cup {sheet_row(n, LatestEdition, t, <<200>>) : n \in {"A", "A ", "B"}, t \in {1, 2}}

\* the sets of at most k of the rows
RECURSIVE edition_sets(_)
edition_sets(k) ==
    IF k = 0 THEN {{}}
    ELSE LET smaller == edition_sets(k - 1)
         IN  smaller \cup {S \cup {r} : S \in smaller, r \in EditionRows}

EditionInit ==
    /\ \E S \in edition_sets(MaxRecords) \ {{}} : PipelineStart(S)
    /\ BidIdle
    /\ DashIdle

SpecEdition == EditionInit /\ [][PipelineNext]_vars

(***************************************************************************)
(* The scripts over several days: between two runs the day can change, and *)
(* update_combined_data.py can be run again on the apl_historical_data.csv *)
(* it has read before.                                                     *)
(***************************************************************************)
\* datetime.now() moves to the next day (update_combined_data.py 124,
\* generate_auction_guide.py 97)
Midnight ==
    /\ clock < MaxDay
    /\ clock' = clock + 1
    /\ UNCHANGED <<bidVars, dashVars, fileVars, pipeline_pc>>

RerunNext ==
    \/ ProcessAllData
    \/ CleanProcessedData
    \/ CombineAplData
    \/ UpdateCombinedData
    \/ GenerateAuctionGuide
    \/ GenerateAuctionTopPicks
    \/ Midnight

RerunInit ==
    /\ \E S \in proposition_sets(MaxRecords) \ {{}} : PipelineStart(S)
    /\ BidIdle
    /\ DashIdle

SpecRerun == RerunInit /\ [][RerunNext]_vars

(***************************************************************************)
(* Tables of up to MaxRecords rows in which a row of the latest edition    *)
(* can come without a Price: apl8_players_data.csv is read as it is        *)
(* (combine_apl_data.py 15) and no script fills its Price.                 *)
(***************************************************************************)
MissingRows ==
    {sheet_row(n, "APL 6.0", t, <<200>>) : n \in {"A", "B"}, t \in {1, 2}}
    \cup {sheet_row(n, "APL 7.0", t, <<>>) : n \in {"A", "B"}, t \in {1, 2}}
    \cup {sheet_row(n, LatestEdition, t, p) :
              n \in {"A", "B"}, t \in {1, 2}, p \in {<<>>, <<200>>}}

\* the sets of at most k of the rows
RECURSIVE missing_sets(_)
missing_sets(k) ==
    IF k = 0 THEN {{}}
    ELSE LET smaller == missing_sets(k - 1)
         IN  smaller \cup {S \cup {r} : S \in smaller, r \in MissingRows}

MissingInit ==
    /\ \E S \in missing_sets(MaxRecords) \ {{}} : PipelineStart(S)
    /\ BidIdle
    /\ DashIdle

SpecMissing == MissingInit /\ [][PipelineNext]_vars

(***************************************************************************)
(* Claims about calculate_max_bid, checked under SpecBid.                  *)
(***************************************************************************)
\* C1: after calculate_max_bid has returned, its result is never negative
\* and never greater than the remainingBudget it was given, whatever the
\* valueScore, negative ones included.
C1_MaxBidWithinBudget ==
    bid_result # <<>> =>
        /\ FracLeq(Frac(0, 1), bid_result[1])
        /\ FracLeq(bid_result[1], Frac(bid_call.remaining_budget, 1))

\* C2: the result of calculate_max_bid is
\* min((remainingBudget / playersNeeded) * multiplier, remainingBudget) with
\* multiplier 1.5 + (valueScore - 1) * 0.5 for a high-priority player and
\* 1 + (valueScore - 1) * 0.3 otherwise; it is 0 when playersNeeded <= 0;
\* and (50, 5, 2.0, high priority) gives 20.
C2_MaxBidFormula ==
    bid_result # <<>> =>
        LET rb == bid_call.remaining_budget
            pn == bid_call.players_needed
            vs == bid_call.player_value
            r == bid_result[1]
            \* the multiplier in thousandths
            multiplier == IF bid_call.is_high_priority
                          THEN 1500 + (vs - 100) * 5
                          ELSE 1000 + (vs - 100) * 3
        IN  /\ pn <= 0 => r.num = 0
            /\ pn > 0 =>
                 IF rb * multiplier <= rb * pn * 1000
                 THEN r.num * pn * 1000 = rb * multiplier * r.den
                 ELSE r.num = rb * r.den
            /\ (rb = 50 /\ pn = 5 /\ vs = 200 /\ bid_call.is_high_priority)
                 => r.num = 20 * r.den

\* the documented example has been computed, and so has a call with no
\* player left to buy
C2_Witness ==
    /\ bid_result # <<>>
    /\ bid_call.remaining_budget = 50 /\ bid_call.players_needed = 5
    /\ bid_call.player_value = 200 /\ bid_call.is_high_priority
    /\ bid_result[1].num = 20 * bid_result[1].den

(***************************************************************************)
(* Claims about the session.                                               *)
(***************************************************************************)
\* C3: the roster, team_players, never holds more than TEAM_SIZE (10)
\* players.
C3_RosterWithinTeamSize == Len(team_players) <= TEAM_SIZE

\* C4: remaining_budget is never negative, the listed prices and the
\* entered final prices being non-negative.
C4_BudgetNeverNegative == remaining_budget >= 0

\* the whole budget is spent, and a purchase the budget cannot pay for is
\* on offer
C4_Witness ==
    /\ team_players # <<>>
    /\ remaining_budget = 0
    /\ \E p \in Players :
          ~player_sold(p) /\ ~player_bought(p) /\ GuideRow(p).Price > 0

(***************************************************************************)
(* Claims about the value rating, checked under SpecRating.                *)
(***************************************************************************)
\* r (hundredths) is (5 - tier) * 10 / price rounded to 2 decimals, the price
\* in tenths and positive
IsValueRating(r, tier, price) == 2 * Abs(r * price - (5 - tier) * 10000) <= price

\* C5: for every tier in 1..4 the value rating written by
\* clean_processed_data.py (calculate_value) and the one written by
\* combine_apl_data.py (calculate_value_rating) is (5 - tier) * 10 / price
\* rounded to 2 decimals when the price is positive and 0 when the price is
\* 0 or missing.
C5_ValueRating ==
    /\ \A i \in DOMAIN apl_data_cleaned :
          LET price == apl67_sheets[i].Price
              tier == apl67_sheets[i].Tier
              rating == apl_data_cleaned[i].Value_Rating
          IN  IF price = <<>> \/ price = <<0>> \/ apl67_sheets[i].Edition = "APL 7.0"
              THEN rating = 0
              ELSE IsValueRating(rating, tier, price[1])
    /\ apl_historical_data # <<>> =>
          \A j \in DOMAIN apl8_players_data :
              LET price == apl8_players_data[j].Price
                  tier == apl8_players_data[j].Tier
                  rating == apl_historical_data[Len(apl_data_cleaned) + j].Value_Rating
              IN  IF price = <<>> \/ price = <<0>>
                  THEN rating = 0
                  ELSE IsValueRating(rating, tier, price[1])

\* both scripts have rated a row: a tier 1 player at 1.5 is rated 26.67 by
\* the first, a tier 2 player at 3 is rated 10 by the second
C5_Witness ==
    /\ apl_historical_data # <<>>
    /\ apl67_sheets[1].Tier = 1 /\ apl67_sheets[1].Price = <<15>>
    /\ apl_data_cleaned[1].Value_Rating = 2667
    /\ apl8_players_data[1].Tier = 2 /\ apl8_players_data[1].Price = <<30>>
    /\ apl_historical_data[2].Value_Rating = 1000

\* C6: in every record the scripts write, a stored Price of 0 comes with a
\* stored Value Rating of 0, and on a latest-edition record with a
\* Value_Proposition of 0; the Price meant is the one stored, after
\* clean_processed_data.py has rounded it.
C6_ZeroPriceZeroRating ==
    /\ \A i \in DOMAIN apl_data_cleaned :
          apl_data_cleaned[i].Price = <<0>> => apl_data_cleaned[i].Value_Rating = 0
    /\ \A i \in DOMAIN apl_historical_data :
          apl_historical_data[i].Price = <<0>> => apl_historical_data[i].Value_Rating = 0
    /\ \A i \in DOMAIN apl_master_data :
          apl_master_data[i].Price = <<0>> =>
              /\ apl_master_data[i].Value_Rating = 0
              /\ apl_master_data[i].Edition = LatestEdition =>
                     apl_master_data[i].Value_Proposition = <<0>>

(***************************************************************************)
(* Claims about the valuation engine, checked under SpecEngine on the rows *)
(* of apl_master_data.                                                     *)
(***************************************************************************)
\* C7: Tier_Movement is 0 on every record whose Edition Count is at most 1,
\* whatever its tier, its historical average tier and its edition.
C7_NoMovementForNewPlayers ==
    \A i \in DOMAIN apl_master_data :
        apl_master_data[i].Edition_Count <= 1 => apl_master_data[i].Tier_Movement = 0

\* a latest-edition record with Edition Count 1 whose tier is not the
\* player's average tier (the name is listed twice in the edition)
C7_Witness ==
    \E i \in DOMAIN apl_master_data :
        /\ apl_master_data[i].Edition_Count = 1
        /\ apl_master_data[i].Edition = LatestEdition
        /\ 10 * apl_master_data[i].Tier # apl_master_data[i].Historical_Avg_Tier
        /\ apl_master_data[i].Tier_Movement = 0

\* C8, as stated: on every record whose Edition Count is greater than 1,
\* Tier_Movement is the record's tier minus the historical average tier.
C8_MovementOnEveryReturningRecord ==
    \A i \in DOMAIN apl_master_data :
        apl_master_data[i].Edition_Count > 1 =>
            apl_master_data[i].Tier_Movement =
                10 * apl_master_data[i].Tier - apl_master_data[i].Historical_Avg_Tier

\* C8, amended: on every latest-edition (APL 8.0) record whose Edition Count
\* is greater than 1, Tier_Movement is the record's tier minus the historical
\* average tier (negative: moved toward tier 1); on a record of an earlier
\* edition it is 0.
C8_MovementOnLatestReturningRecord ==
    \A i \in DOMAIN apl_master_data :
        apl_master_data[i].Edition_Count > 1 =>
            IF apl_master_data[i].Edition = LatestEdition
            THEN apl_master_data[i].Tier_Movement =
                     10 * apl_master_data[i].Tier - apl_master_data[i].Historical_Avg_Tier
            ELSE apl_master_data[i].Tier_Movement = 0

\* a returning player improved (tier 1 now, 1.5 on average) and the record of
\* the earlier edition, tier 2, has no movement
C8_Witness ==
    \E i, j \in DOMAIN apl_master_data :
        /\ apl_master_data[i].Player_Name = apl_master_data[j].Player_Name
        /\ apl_master_data[i].Edition = LatestEdition
        /\ apl_master_data[i].Edition_Count = 2
        /\ apl_master_data[i].Tier = 1
        /\ apl_master_data[i].Tier_Movement = -5
        /\ apl_master_data[j].Edition = "APL 6.0"
        /\ apl_master_data[j].Tier = 2
        /\ apl_master_data[j].Tier_Movement = 0

\* C9, as stated: on every record with Edition Count at most 1,
\* Recommended_Price is the record's Price, unchanged.
C9_NewPlayerPriceOnEveryRecord ==
    \A i \in DOMAIN apl_master_data :
        apl_master_data[i].Edition_Count <= 1 =>
            apl_master_data[i].Recommended_Price = apl_master_data[i].Price

\* C9, amended: on every latest-edition (APL 8.0) record with Edition Count at
\* most 1, Recommended_Price is the record's Price, unchanged: not blended,
\* not adjusted for the tier, not rounded.
C9_NewPlayerPriceOnLatestRecord ==
    \A i \in DOMAIN apl_master_data :
        (apl_master_data[i].Edition_Count <= 1
            /\ apl_master_data[i].Edition = LatestEdition) =>
            apl_master_data[i].Recommended_Price = apl_master_data[i].Price

\* a new player priced 0.5 whose name is listed twice in the latest edition,
\* so that the historical average (10.2) is not the price, keeps 0.5
C9_Witness ==
    \E i \in DOMAIN apl_master_data :
        /\ apl_master_data[i].Edition_Count = 1
        /\ apl_master_data[i].Edition = LatestEdition
        /\ apl_master_data[i].Price = <<5>>
        /\ apl_master_data[i].Historical_Avg_Price = <<102>>
        /\ apl_master_data[i].Recommended_Price = <<5>>

tierFactor(row) ==
    IF row.Tier_Movement < 0 THEN 12 ELSE IF row.Tier_Movement > 0 THEN 8 ELSE 10

priceFactor(row) ==
    IF row.Edition_Count <= 1 THEN 10
    ELSE IF row.Price[1] < row.Historical_Avg_Price[1] THEN 12
    ELSE IF row.Price[1] > row.Historical_Avg_Price[1] THEN 8
    ELSE 10

C12_NullOutsideLatestEdition ==
    \A i \in DOMAIN apl_master_data :
        apl_master_data[i].Edition # LatestEdition =>
            /\ apl_master_data[i].Value_Proposition = <<>>
            /\ apl_master_data[i].Recommended_Price = <<>>

\* an APL 6.0 record with a price and a rating, of a player who returns in
\* the latest edition
C12_Witness ==
    \E i \in DOMAIN apl_master_data :
        LET row == apl_master_data[i]
        IN  /\ row.Edition = "APL 6.0"
            /\ row.Edition_Count > 1
            /\ row.Price = <<100>>
            /\ row.Value_Rating > 0
            /\ row.Value_Proposition = <<>>
            /\ row.Recommended_Price = <<>>
            /\ \E j \in DOMAIN apl_master_data :
                  /\ apl_master_data[j].Player_Name = row.Player_Name
                  /\ apl_master_data[j].Edition = LatestEdition
                  /\ apl_master_data[j].Recommended_Price # <<>>


(***************************************************************************)
(* C13.  On every row of the auction guide the priority is High when the   *)
(* player is top in tier or the value score exceeds 1.5, Medium when it is *)
(* not High and the value score exceeds 1.0, and Low otherwise: every row  *)
(* has exactly one of the three, and the scores 1.5 and 1.0 themselves     *)
(* fall in the lower class.                                                *)
(***************************************************************************)
C13_AuctionPriority ==
    \A i \in DOMAIN apl8_auction_guide :
        LET row == apl8_auction_guide[i]
            score == row.Value_Score[1]
            high == row.Top_In_Tier \/ score > 150
            medium == ~high /\ score > 100
        IN  /\ row.Value_Score # <<>>
            /\ row.Auction_Priority \in {"High", "Medium", "Low"}
            /\ row.Auction_Priority = "High" <=> high
            /\ row.Auction_Priority = "Medium" <=> medium
            /\ row.Auction_Priority = "Low" <=> (~high /\ ~medium)
            /\ (~row.Top_In_Tier /\ score = 150) => row.Auction_Priority = "Medium"
            /\ (~row.Top_In_Tier /\ score = 100) => row.Auction_Priority = "Low"

\* a player who is not top in tier, with a value score of exactly 1.5
C13_Witness ==
    \E i \in DOMAIN apl8_auction_guide :
        /\ ~apl8_auction_guide[i].Top_In_Tier
        /\ apl8_auction_guide[i].Value_Score = <<150>>
        /\ apl8_auction_guide[i].Auction_Priority = "Medium"


(***************************************************************************)
(* C14.  The auction score of every row of the top picks is the product    *)
(* valueScore x 5 x ((5 - tier) / 4) x historyFactor rounded to 1 decimal, *)
(* where historyFactor is 1.1 when the player has more than one edition    *)
(* and 1.0 otherwise, multiplied by 1.2 when the player is top in tier.    *)
(***************************************************************************)
\* the guide rows a row of the top picks was taken from
guide_rows_of(pick) ==
    {i \in DOMAIN apl8_auction_guide :
        LET row == apl8_auction_guide[i]
        IN  /\ row.Player = pick.Player
            /\ row.Tier = pick.Tier
            /\ row.Price = pick.Price
            /\ row.Value_Score = pick.Value_Score
            /\ row.APL_Editions = pick.APL_Editions
            /\ row.Bidding_Strategy = pick.Bidding_Strategy}

\* historyFactor in hundredths
historyFactor(row) ==
    IF row.APL_Editions > 1
    THEN IF row.Top_In_Tier THEN 132 ELSE 110
    ELSE IF row.Top_In_Tier THEN 120 ELSE 100

C15_AuctionScoreRange ==
    \A k \in DOMAIN apl8_auction_top_picks :
        LET pick == apl8_auction_top_picks[k]
        IN  pick.Auction_Score # <<>> =>
                (0 <= pick.Auction_Score[1] /\ pick.Auction_Score[1] <= 100)


(***************************************************************************)
(* C16.  In every tier the latest-edition records flagged Is_Tier_Top are  *)
(* exactly the three with the best (lowest) rankings, all of them when the *)
(* tier has fewer than three: no tier has more than three flagged records, *)
(* also when rankings are equal or not consecutive.                        *)
(***************************************************************************)
\* the latest-edition records of a tier, and the flagged ones among them
tier_records(tier) ==
    {i \in DOMAIN apl_master_data : /\ apl_master_data[i].Edition = LatestEdition
                                    /\ apl_master_data[i].Tier = tier}
tier_flagged(tier) == {i \in tier_records(tier) : apl_master_data[i].Is_Tier_Top}

C16_TopThreeByRanking ==
    \A tier \in 1..4 :
        /\ Cardinality(tier_flagged(tier)) = Min2(3, Cardinality(tier_records(tier)))
        /\ \A i \in tier_flagged(tier) : \A j \in tier_records(tier) \ tier_flagged(tier) :
              apl_master_data[i].Ranking[1] <= apl_master_data[j].Ranking[1]

\* a tier with more than three flagged records
C16_FourFlagged == \E tier \in 1..4 : Cardinality(tier_flagged(tier)) > 3


Editions == {"APL 6.0", "APL 7.0", LatestEdition}

editions_of(df, name) ==
    {e \in Editions : \E j \in DOMAIN df : df[j].Player_Name = name /\ df[j].Edition = e}

EditionCountOf(df) ==
    \A i \in DOMAIN df :
        /\ df[i].Edition_Count >= 1
        /\ df[i].Edition_Count = Cardinality(editions_of(df, df[i].Player_Name))
        /\ \A j \in DOMAIN df :
              df[j].Player_Name = df[i].Player_Name
                  => df[j].Edition_Count = df[i].Edition_Count

C18_EditionCount == EditionCountOf(apl_historical_data) /\ EditionCountOf(apl_master_data)

\* A appears in two editions, once under a padded name in a workbook, and
\* the padded name of the latest edition counts on its own
C18_Witness ==
    /\ \E i \in DOMAIN apl67_sheets : apl67_sheets[i].Player_Name = "A "
    /\ \E i \in DOMAIN apl_master_data :
          /\ apl_master_data[i].Player_Name = "A"
          /\ apl_master_data[i].Edition = LatestEdition
          /\ apl_master_data[i].Edition_Count = 2
    /\ \E i \in DOMAIN apl_master_data :
          /\ apl_master_data[i].Player_Name = "A "
          /\ apl_master_data[i].Edition_Count = 1


(***************************************************************************)
(* C19.  Idempotence: a run of the valuation engine on the base table it   *)
(* has already been applied to yields the same derived columns (historical *)
(* averages, Price_Variance_From_Avg, Tier_Movement, Value_Proposition,    *)
(* Is_Tier_Top, Recommended_Price) as the run before.                      *)
(***************************************************************************)
derived_columns(df) ==
    [i \in DOMAIN df |->
        [Historical_Avg_Price |-> df[i].Historical_Avg_Price,
         Historical_Avg_Tier |-> df[i].Historical_Avg_Tier,
         Price_Variance_From_Avg |-> df[i].Price_Variance_From_Avg,
         Tier_Movement |-> df[i].Tier_Movement,
         Value_Proposition |-> df[i].Value_Proposition,
         Is_Tier_Top |-> df[i].Is_Tier_Top,
         Recommended_Price |-> df[i].Recommended_Price]]

input_columns(df) ==
    [i \in DOMAIN df |->
        [Player_Name |-> df[i].Player_Name,
         Edition |-> df[i].Edition,
         Tier |-> df[i].Tier,
         Price |-> df[i].Price,
         Position |-> df[i].Position,
         Primary_Position |-> df[i].Primary_Position,
         Ranking |-> df[i].Ranking,
         Value_Rating |-> df[i].Value_Rating,
         Edition_Count |-> df[i].Edition_Count]]

derived_names ==
    {"Historical_Avg_Price", "Historical_Avg_Tier", "Price_Variance_From_Avg",
     "Tier_Movement", "Value_Proposition", "Is_Tier_Top", "Export_Date",
     "Recommended_Price"}

C20_InputColumnsUnchanged ==
    pipeline_pc \in {"guide", "picks", "done"} =>
        /\ Len(apl_master_data) = Len(apl_historical_data)
        /\ input_columns(apl_master_data) = input_columns(apl_historical_data)
        /\ \A i \in DOMAIN apl_master_data :
              DOMAIN apl_master_data[i]
                  = DOMAIN apl_historical_data[i] \cup derived_names

\* a returning player of the latest edition whose recommended price differs
\* from the price, next to an earlier record
C20_Witness ==
    /\ Len(apl_master_data) = 3
    /\ \E i \in DOMAIN apl_master_data :
          /\ apl_master_data[i].Edition = LatestEdition
          /\ apl_master_data[i].Edition_Count > 1
          /\ apl_master_data[i].Recommended_Price # apl_master_data[i].Price
          /\ apl_master_data[i].Price = apl_historical_data[i].Price
          /\ apl_master_data[i].Tier_Movement # 0


(***************************************************************************)
(* C21.  No derived-field operation raises on a missing numeric input: a   *)
(* record without Price, Historical_Avg_Price or Recommended_Price gets a  *)
(* defined default from recommend_price, calculate_value_proposition, the  *)
(* auction-priority rule and bidding_strategy, and the batch run           *)
(* completes: no script of the run ends in an exception.                   *)
(***************************************************************************)
C21_BatchRunCompletes == pipeline_pc # "failed"

\* bidding_strategy has raised on the record of a new player without Price,
\* whose Recommended_Price recommend_price left missing
C21_StrategyRaised ==
    /\ pipeline_pc = "failed"
    /\ apl8_auction_guide = <<>>
    /\ \E i \in DOMAIN apl_master_data :
          /\ apl_master_data[i].Edition = LatestEdition
          /\ apl_master_data[i].Edition_Count = 1
          /\ apl_master_data[i].Price = <<>>
          /\ apl_master_data[i].Recommended_Price = <<>>


(***************************************************************************)
(* C22.  Simulated team gender rule: whenever the simulated team has fewer *)
(* than MIN_NON_CIS women before the adjustment and at least as many       *)
(* unsold women outside the team are available as are missing, the team    *)
(* has at least MIN_NON_CIS women after the adjustment, in the tier-based  *)
(* and in the position-based simulation.                                   *)
(***************************************************************************)
\* combined_team before the adjustment, 437-464
initial_tier_team(b) ==
    LET c == tier_counts(b[1], b[2], b[3])
    IN  tier_players(1, b[1], c[1]) \o tier_players(2, b[2], c[2])
        \o tier_players(3, b[3], c[3]) \o tier_players(4, b[4], c[4])

\* simulated_team before the adjustment, 503-512
initial_position_team(b) ==
    get_position_players("Forward", b[1], 3) \o get_position_players("Midfielder", b[2], 3)
    \o get_position_players("Defender", b[3], 3) \o get_position_players("Goalkeeper", b[4], 1)

\* fewer women than required, and enough of them left to bring in
adjustable(team) ==
    /\ women_in(team) < MIN_NON_CIS
    /\ Len(non_cis_players(team)) >= MIN_NON_CIS - women_in(team)

C22_GenderRule ==
    /\ \A b \in TierSliders :
          adjustable(initial_tier_team(b)) =>
              women_in(simulate_by_tier(b[1], b[2], b[3], b[4])) >= MIN_NON_CIS
    /\ \A b \in PositionSliders :
          adjustable(initial_position_team(b)) =>
              women_in(simulate_by_position(b[1], b[2], b[3], b[4])) >= MIN_NON_CIS

\* with a player marked as sold, the tier-based adjustment has taken the only
\* woman out of the team to bring another one in
C22_WomanSwappedForWoman ==
    \E b \in TierSliders :
        LET before == initial_tier_team(b)
            after == simulate_by_tier(b[1], b[2], b[3], b[4])
        IN  /\ adjustable(before)
            /\ women_in(before) = 1
            /\ women_in(after) = 1
            /\ names_of(after) # names_of(before)
            /\ Len(after) = Len(before)
            /\ Len(before) > 1
            /\ Len(sold_players) > 0


(***************************************************************************)
(* C23.  Budget conservation: in every reachable session state             *)
(* TOTAL_BUDGET minus remaining_budget equals the sum over team_players of *)
(* the amount paid (Final_Price when present, otherwise Price), so the     *)
(* "Budget Used" of the budget meter and that of the Team Builder agree.   *)
(***************************************************************************)
\* p.get('Final_Price', p.get('Price', 0)), 1487
price_paid(e) == IF e.Final_Price # <<>> THEN e.Final_Price[1] ELSE e.Price

\* total_team_price, 1487
RECURSIVE total_team_price(_)
total_team_price(players) ==
    IF players = <<>> THEN 0
    ELSE price_paid(players[1]) + total_team_price(Tail(players))

\* "Budget Used" of show_budget, 218
budget_used == TOTAL_BUDGET - remaining_budget

C23_BudgetConservation == budget_used = total_team_price(team_players)

\* a simulated team was added to a roster that held one of its players
\* already: the budget meter shows more used than the roster cost
C23_ChargedTwice ==
    /\ Len(team_players) = 2
    /\ \A i \in DOMAIN team_players : team_players[i].Bid = <<>>
    /\ budget_used = total_team_price(team_players) + team_players[1].Price


(***************************************************************************)
(* C24.  Add-then-Remove round trip: however a player was acquired (Add to *)
(* Team in the search, team-builder or top-targets tab, or Confirm Bid     *)
(* with any final price), the acquisition takes the amount paid off        *)
(* remaining_budget, and a Remove takes the player out of team_players and *)
(* gives that amount back, so that remaining_budget is what it was before  *)
(* the acquisition.                                                        *)
(***************************************************************************)
\* the first entry of the player in team_players
team_entry(p) ==
    team_players[CHOOSE k \in DOMAIN team_players :
                     /\ team_players[k].Player = p
                     /\ \A j \in 1..(k - 1) : team_players[j].Player # p]

C24_AddThenRemove ==
    [][\A p \in Players :
          /\ (~player_bought(p) /\ player_bought(p)') =>
                 remaining_budget' =
                     remaining_budget - price_paid(team_players'[Len(team_players')])
          /\ SearchRemove(p) =>
                 /\ ~player_bought(p)'
                 /\ remaining_budget' = remaining_budget + price_paid(team_entry(p))]_vars

\* a player bought at a final price of 0 was removed: more than TOTAL_BUDGET
\* remains with an empty roster
C24_RefundedMore ==
    /\ team_players = <<>>
    /\ remaining_budget > TOTAL_BUDGET


(***************************************************************************)
(* C25.  No duplicate roster entries: in every reachable session state     *)
(* each player name appears at most once in team_players, also when a bid  *)
(* form was opened for a player and the player was added through another   *)
(* tab before the bid is confirmed.                                        *)
(***************************************************************************)
C25_NoDuplicateEntries ==
    \A i, j \in DOMAIN team_players :
        team_players[i].Player = team_players[j].Player => i = j

\* the player was added with Add to Team while the bid form was open, and
\* the bid was confirmed afterwards
C25_AddedThenBid ==
    /\ Len(team_players) = 2
    /\ team_players[1].Player = team_players[2].Player
    /\ team_players[1].Bid = <<>>
    /\ team_players[2].Bid # <<>>
    /\ current_bid_player = <<>>

(***************************************************************************)
(* C26.  Team and sold list are disjoint: in every reachable session state *)
(* no player is both in team_players and in sold_players, for any          *)
(* interleaving of Bid, Mark as Sold, Mark as Available, Add to Team and   *)
(* Confirm Bid across the tabs.                                            *)
(***************************************************************************)
C26_TeamAndSoldDisjoint ==
    \A p \in Players : ~(player_bought(p) /\ player_sold(p))

\* the player was marked as sold while the bid form was open, and the bid
\* was confirmed afterwards
C26_SoldThenBid ==
    \E p \in Players :
        /\ player_sold(p)
        /\ team_players = <<entry_bid(GuideRow(p), 1, 50)>>
        /\ bid_history[p] # <<>>
        /\ current_bid_player = <<>>


(***************************************************************************)
(* C27.  A rejected purchase changes nothing: when the price to pay (the   *)
(* listed price for Add to Team, the final price for Confirm Bid, the      *)
(* total cost for Add Team to My Roster) exceeds remaining_budget, the     *)
(* action leaves team_players, remaining_budget, sold_players and          *)
(* bid_history exactly as they were.                                       *)
(***************************************************************************)
purchase_kept == UNCHANGED <<team_players, remaining_budget, sold_players, bid_history>>

C27_RejectedPurchase ==
    [][/\ \A p \in Players :
             GuideRow(p).Price > remaining_budget =>
                 /\ SearchAddToTeam(p) => purchase_kept
                 /\ TopAddToTeam(p) => purchase_kept
                 /\ BuilderAddToTeam(p) => purchase_kept
       /\ \A p \in Players : \A bid \in SliderBids : \A final \in FinalPrices :
             final > remaining_budget =>
                 /\ SearchConfirmBid(p, bid, final) => purchase_kept
                 /\ TopConfirmBid(p, bid, final) => purchase_kept
                 /\ BuilderConfirmBid(p, bid, final) => purchase_kept
       /\ \A team \in simulated_teams :
             SumPrice(team) > remaining_budget =>
                 (AddTeamToRoster(team) => purchase_kept)]_vars

\* after a purchase nothing remains, and a bid form is open whose final
\* price can exceed the budget (the form's limit is 100 when the budget is 0)
C27_Witness ==
    /\ team_players # <<>>
    /\ remaining_budget = 0
    /\ \E p \in TopPicks : current_bid_player = <<p>>
    /\ \E final \in final_prices(100) : final > remaining_budget


(***************************************************************************)
(* C28.  Reset Team, from any reachable state, leaves team_players empty   *)
(* and remaining_budget equal to TOTAL_BUDGET, and leaves sold_players,    *)
(* bid_history, current_bid_player and all filter settings unchanged.      *)
(***************************************************************************)
C28_ResetTeam ==
    [][ResetTeam =>
           /\ team_players' = <<>>
           /\ remaining_budget' = TOTAL_BUDGET
           /\ UNCHANGED <<sold_players, bid_history, current_bid_player, filters>>]_vars

\* a state a Reset Team has led to: no team and the whole budget, with a
\* player sold, a bid recorded, a bid form open and the price range that
\* View All Affordable Players had set
C28_Witness ==
    /\ team_players = <<>>
    /\ remaining_budget = TOTAL_BUDGET
    /\ sold_players # <<>>
    /\ \E p \in Players : bid_history[p] # <<>> /\ bid_history[p][1].final_price > 0
    /\ current_bid_player # <<>>
    /\ filters.show_top_picks = FALSE
    /\ filters.price_range_max \notin {40, 100}


(***************************************************************************)
(* C29.  A player marked as sold is never proposed: for every sold_players *)
(* list and every slider setting, the simulated team, tier-based or        *)
(* position-based and with the players the gender adjustment brings in,    *)
(* contains no player that is in sold_players.                             *)
(***************************************************************************)
C29_SoldNeverProposed ==
    \A team \in simulated_teams :
        \A i \in DOMAIN team : ~player_sold(team[i].Player)

\* the adjustment has brought in a woman although a woman with a higher
\* Value_Score is in the guide, marked as sold
C29_Witness ==
    \E b \in TierSliders :
        LET before == initial_tier_team(b)
            after == simulate_by_tier(b[1], b[2], b[3], b[4])
        IN  /\ adjustable(before)
            /\ \E i \in DOMAIN after : \E j \in DOMAIN auction_guide :
                  /\ after[i].Player \notin names_of(before)
                  /\ auction_guide[j].Gender = "Women"
                  /\ auction_guide[j].Value_Score > after[i].Value_Score
                  /\ player_sold(auction_guide[j].Player)


(***************************************************************************)
(* C30.  bidding_strategy always produces a well-formed bid range: for     *)
(* every recommended price >= 0, the lower bound                           *)
(* max(5, round(0.8 * recommended)) is less than or equal to the upper     *)
(* bound round(1.2 * recommended), in every row of the auction guide.      *)
(***************************************************************************)
C30_BidRangeWellFormed ==
    \A i \in DOMAIN apl8_auction_guide :
        apl8_auction_guide[i].Bidding_Strategy.min_bid
            <= apl8_auction_guide[i].Bidding_Strategy.max_bid

\* the guide holds a range that starts at the floor of 5 and ends below it,
\* for a recommended price above 0
C30_RangeBelowFloor ==
    \E i \in DOMAIN apl8_auction_guide :
        /\ apl8_auction_guide[i].Recommended # <<>>
        /\ apl8_auction_guide[i].Recommended[1] > 0
        /\ apl8_auction_guide[i].Bidding_Strategy.min_bid = 5
        /\ apl8_auction_guide[i].Bidding_Strategy.max_bid < 5

=============================================================================
